---- MODULE Spec2Model ----
(***************************************************************************)
(* Sentinel-Link: the signaling relay (backend/server.js), the controller's *)
(* negotiation view (sentinel-dashboard LiveFeed.tsx) and the device.      *)
(*                                                                         *)
(* SpecRelay  : the relay's registry and message handlers.  Every          *)
(*              handler of io.on('connection') is one action; the relay    *)
(*              is a single event loop, so a handler runs to completion.   *)
(* SpecFeed   : the LiveFeed component's negotiation effect, its timers    *)
(*              and its peer-connection callbacks.                         *)
(* SpecDevice : the device client's offer handler (mobile/App.tsx v2.2     *)
(*              and the v4.0 client of unnamed/part_004), one action per   *)
(*              await of the async handler.                                *)
(* SpecLink   : one negotiation end to end, the three wired together by   *)
(*              the messages in flight, with fair scheduling.              *)
(* SpecSession: the same wiring over several negotiations: the operator    *)
(*              reselects, closes and reopens the view.                    *)
(* SpecFiles  : the file manager, the relay and the device's storage.      *)
(* SpecScan   : the device's file listing over any storage.                *)
(* SpecRoster : the dashboard's device list against the relay's registry.  *)
(* SpecBrowse : two dashboards browsing the files of two devices.          *)
(* SpecConsole: the dashboard's device selection and its commands.         *)
(***************************************************************************)
EXTENDS Integers, Sequences, FiniteSets, TLC

\* ------------------------------------------------------------------ bounds
\* number of transports (socket ids) that ever connect to the relay
NSock == 2
\* number of negotiation attempts (effect runs that reach startCall)
MaxAttempts == 2
\* number of offers the device client receives
MaxOffers == 2

\* ------------------------------------------------------------- value sets
Sock        == 1..NSock
\* the socket ids the relay can hand out: those of Sock, and one more for the
\* specification that puts a dashboard beside NSock device transports
Transport   == 1..(NSock + 2)
DeviceIds   == {"D1", "D2"}
Platforms   == {"android"}
Targets     == DeviceIds \cup {"admin"}
Bodies      == {"x", "y"}
NoId        == "none"

VARIABLES
    \* ---- relay (backend/server.js)
    sockState,          \* transport: "fresh" (not yet connected), "open", "closed"
    dataType,           \* socket.data.type: "NONE" | "DEVICE" | "ADMIN"
    dataDeviceId,       \* socket.data.deviceId
    connectedDevices,   \* the Map, as the sequence of its values in insertion order
    lastMsg,            \* the message the relay handled in the last step
    delivered,          \* the deliveries that step made: [to, ev, payload]
    emitted,            \* the emissions that step made, received or not: [ev, payload]
    everRegistered,     \* history: transports that have sent register-device
    offlineCount,       \* history: device-offline emissions caused by each transport's close
    relayUp,            \* the relay process is running (no handler has thrown)
    \* ---- controller negotiation view (LiveFeed.tsx)
    feed,               \* the component instance: state, refs, props
    pcs,                \* every RTCPeerConnection created so far, by attempt
    deadlines,          \* pending 20 s deadline timers, each with what its closure captured
    offerTimers,        \* pending 2 s offer-emit timers, each with what its closure captured
    attempts,           \* number of attempts started so far
    feedOp,             \* the step the view took last
    \* ---- device client (mobile/App.tsx)
    dev,                \* the App component: launched, version, status, pcRef, streamRef
    dpcs,               \* every RTCPeerConnection the device created, by offer
    dstreams,           \* the media streams acquired and not stopped (0: acquired at start)
    calls,              \* the offer handler invocations: where each one is, and its payload
    offersSeen,         \* number of offers received so far
    devOut,             \* what the device emitted in its last step: [ev, target, offer]
    devOp,              \* the step the device took last
    \* ---- controller file manager (FileManager) and the device's storage
    fm,                 \* the FileManager component: open, target, files, loading, selection
    fmOut,              \* what the file manager emitted in its last step, in order
    dfs,                \* the device's directories: entries in readDir order, unreadable paths
    opens,              \* number of times the file manager was opened
    \* ---- controller device list (dashboard App.tsx)
    dash,               \* per transport: the kind of client behind it, and a dashboard's list
    \* ---- transports
    wire                \* messages in flight: [ev, from, to, target, body]

relayVars == <<sockState, dataType, dataDeviceId, connectedDevices, lastMsg,
               delivered, emitted, everRegistered, offlineCount, relayUp>>
feedVars  == <<feed, pcs, deadlines, offerTimers, attempts, feedOp>>
devVars   == <<dev, dpcs, dstreams, calls, offersSeen, devOut, devOp>>
fileVars  == <<fm, fmOut, dfs, opens>>
vars      == <<relayVars, feedVars, devVars, fileVars, dash, wire>>

\* what a step of one component leaves alone
notRelay  == <<feedVars, devVars, fileVars, dash, wire>>
notFeed   == <<relayVars, devVars, fileVars, dash, wire>>
notDevice == <<relayVars, feedVars, fileVars, dash, wire>>

\* ===================================================================
\*                              R E L A Y
\* ===================================================================

Open == {s \in Transport : sockState[s] = "open"}

\* Array.from(connectedDevices.values()).find(d => d.deviceId === target)
RECURSIVE FindFrom(_, _, _)
FindFrom(reg, id, i) ==
    IF i > Len(reg) THEN 0
    ELSE IF reg[i].deviceId = id THEN i
    ELSE FindFrom(reg, id, i + 1)

\* mutant: a lookup that falls back to the first entry when nothing matches
FindDeviceOrFirst(reg, id) ==
    IF FindFrom(reg, id, 1) = 0 /\ Len(reg) > 0 THEN 1 ELSE FindFrom(reg, id, 1)

FindDevice(reg, id) == FindFrom(reg, id, 1)

\* index of the entry stored under key socketId, 0 when the Map has no such key
RECURSIVE KeyFrom(_, _, _)
KeyFrom(reg, s, i) ==
    IF i > Len(reg) THEN 0
    ELSE IF reg[i].socketId = s THEN i
    ELSE KeyFrom(reg, s, i + 1)

KeyIndex(reg, s) == KeyFrom(reg, s, 1)

\* mutant: a registration that always adds an entry
MapSetAppend(reg, s, info) == Append(reg, info)

\* Map.prototype.set: an existing key keeps its place, a new key goes last
MapSet(reg, s, info) ==
    IF KeyIndex(reg, s) = 0 THEN Append(reg, info)
    ELSE [reg EXCEPT ![KeyIndex(reg, s)] = info]

\* Map.prototype.delete
MapDelete(reg, s) ==
    SelectSeq(reg, LAMBDA d : d.socketId # s)

\* io.emit: every connected socket
IoEmit(ev, payload) ==
    {[to |-> r, ev |-> ev, payload |-> payload] : r \in Open}

\* mutant: an emit that answers the sender instead of broadcasting
BroadcastEmitToSender(s, ev, payload) ==
    {[to |-> s, ev |-> ev, payload |-> payload]}

\* socket.broadcast.emit: every connected socket but the sender
BroadcastEmit(s, ev, payload) ==
    {[to |-> r, ev |-> ev, payload |-> payload] : r \in Open \ {s}}

\* mutant: a targeted emit that reaches every connected socket
IoToEmitAll(sid, ev, payload) ==
    {[to |-> r, ev |-> ev, payload |-> payload] : r \in Open}

\* io.to(socketId).emit: the room of that id holds the socket while it is connected
IoToEmit(sid, ev, payload) ==
    {[to |-> r, ev |-> ev, payload |-> payload] : r \in Open \cap {sid}}

\* socket.emit: the sender
SocketEmit(s, ev, payload) ==
    {[to |-> s, ev |-> ev, payload |-> payload]}

Msg(ev, s, target, body) == [ev |-> ev, from |-> s, target |-> target, body |-> body]

RelayInit ==
    /\ sockState        = [s \in Transport |-> "fresh"]
    /\ dataType         = [s \in Transport |-> "NONE"]
    /\ dataDeviceId     = [s \in Transport |-> NoId]
    /\ connectedDevices = << >>
    /\ lastMsg          = Msg("start", 0, NoId, NoId)
    /\ delivered        = {}
    /\ emitted          = {}
    /\ everRegistered   = {}
    /\ offlineCount     = [s \in Transport |-> 0]
    /\ relayUp          = TRUE

\* io.on('connection'): socket ids are fresh; they are numbered in connection order
ConnectionHandler(s) ==
    /\ relayUp
    /\ sockState[s] = "fresh"
    /\ \A r \in Transport : r < s => sockState[r] # "fresh"
    /\ sockState' = [sockState EXCEPT ![s] = "open"]
    /\ lastMsg'   = Msg("connection", s, NoId, NoId)
    /\ delivered' = {}
    /\ emitted'   = {}
    /\ UNCHANGED <<dataType, dataDeviceId, connectedDevices, everRegistered, offlineCount, relayUp>>

Connect(s) ==
    ConnectionHandler(s) /\ UNCHANGED notRelay

\* mutant: a registration that remembers only the first deviceId of the transport
RegisterDeviceKeepId(s, deviceId, os) ==
    LET deviceInfo == [deviceId |-> deviceId, os |-> os, socketId |-> s] IN
    /\ relayUp /\ sockState[s] = "open"
    /\ connectedDevices' = MapSet(connectedDevices, s, deviceInfo)
    /\ dataType'         = [dataType EXCEPT ![s] = "DEVICE"]
    /\ dataDeviceId'     = [dataDeviceId EXCEPT ![s] = IF @ = NoId THEN deviceId ELSE @]
    /\ delivered'        = IoEmit("device-online", deviceInfo)
    /\ emitted'          = {[ev |-> "device-online", payload |-> deviceInfo]}
    /\ lastMsg'          = Msg("register-device", s, deviceId, os)
    /\ everRegistered'   = everRegistered \cup {s}
    /\ UNCHANGED <<sockState, offlineCount, relayUp>>

\* the body of socket.on('register-device')
RegisterDeviceHandler(s, deviceId, os) ==
    LET deviceInfo == [deviceId |-> deviceId, os |-> os, socketId |-> s] IN
    /\ relayUp /\ sockState[s] = "open"
    /\ connectedDevices' = MapSet(connectedDevices, s, deviceInfo)
    /\ dataType'         = [dataType EXCEPT ![s] = "DEVICE"]
    /\ dataDeviceId'     = [dataDeviceId EXCEPT ![s] = deviceId]
    /\ delivered'        = IoEmit("device-online", deviceInfo)
    /\ emitted'          = {[ev |-> "device-online", payload |-> deviceInfo]}
    /\ lastMsg'          = Msg("register-device", s, deviceId, os)
    /\ everRegistered'   = everRegistered \cup {s}
    /\ UNCHANGED <<sockState, offlineCount, relayUp>>

RegisterDevice(s, deviceId, os) ==
    RegisterDeviceHandler(s, deviceId, os) /\ UNCHANGED notRelay

\* the body of socket.on('register-admin')
RegisterAdminHandler(s) ==
    /\ relayUp /\ sockState[s] = "open"
    /\ dataType'  = [dataType EXCEPT ![s] = "ADMIN"]
    /\ lastMsg'   = Msg("register-admin", s, NoId, NoId)
    /\ delivered' = {}
    /\ emitted'   = {}
    /\ UNCHANGED <<sockState, dataDeviceId, connectedDevices, everRegistered, offlineCount, relayUp>>

RegisterAdmin(s) ==
    RegisterAdminHandler(s) /\ UNCHANGED notRelay

\* the body of socket.on('get-active-devices')
GetActiveDevicesHandler(s) ==
    LET devicesList == [list |-> connectedDevices] IN
    /\ relayUp /\ sockState[s] = "open"
    /\ delivered' = SocketEmit(s, "active-devices-list", devicesList)
    /\ emitted'   = {[ev |-> "active-devices-list", payload |-> devicesList]}
    /\ lastMsg'   = Msg("get-active-devices", s, NoId, NoId)
    /\ UNCHANGED <<sockState, dataType, dataDeviceId, connectedDevices, everRegistered, offlineCount, relayUp>>

GetActiveDevices(s) ==
    GetActiveDevicesHandler(s) /\ UNCHANGED notRelay

\* the shared shape of the handlers that look the target up and forward to it
ForwardToDevice(s, evIn, evOut, target, body, payload) ==
    LET i == FindDevice(connectedDevices, target) IN
    /\ relayUp /\ sockState[s] = "open"
    /\ lastMsg' = Msg(evIn, s, target, body)
    /\ IF i # 0
         THEN /\ delivered' = IoToEmit(connectedDevices[i].socketId, evOut, payload)
              /\ emitted'   = {[ev |-> evOut, payload |-> payload]}
         ELSE /\ delivered' = {}
              /\ emitted'   = {}
    /\ UNCHANGED <<sockState, dataType, dataDeviceId, connectedDevices, everRegistered, offlineCount, relayUp>>

\* the body of socket.on('offer')
OfferHandler(s, target, body) ==
    ForwardToDevice(s, "offer", "offer", target, body, [target |-> target, sdp |-> body])

Offer(s, target, body) ==
    OfferHandler(s, target, body) /\ UNCHANGED notRelay

\* mutant: an answer relay that rebuilds the payload from its sdp alone
AnswerHandlerSdpOnly(s, target, body) ==
    LET payload == [sdp |-> body] IN
    /\ relayUp /\ sockState[s] = "open"
    /\ delivered' = BroadcastEmit(s, "answer", payload)
    /\ emitted'   = {[ev |-> "answer", payload |-> payload]}
    /\ lastMsg'   = Msg("answer", s, target, body)
    /\ UNCHANGED <<sockState, dataType, dataDeviceId, connectedDevices, everRegistered, offlineCount, relayUp>>

\* the body of socket.on('answer')
AnswerHandler(s, target, body) ==
    LET payload == [target |-> target, sdp |-> body] IN
    /\ relayUp /\ sockState[s] = "open"
    /\ delivered' = BroadcastEmit(s, "answer", payload)
    /\ emitted'   = {[ev |-> "answer", payload |-> payload]}
    /\ lastMsg'   = Msg("answer", s, target, body)
    /\ UNCHANGED <<sockState, dataType, dataDeviceId, connectedDevices, everRegistered, offlineCount, relayUp>>

Answer(s, target, body) ==
    AnswerHandler(s, target, body) /\ UNCHANGED notRelay

\* the body of socket.on('ice-candidate')
IceCandidateHandler(s, target, body) ==
    LET payload == [target |-> target, candidate |-> body] IN
    IF target = "admin"
      THEN /\ relayUp /\ sockState[s] = "open"
           /\ delivered' = BroadcastEmit(s, "ice-candidate", payload)
           /\ emitted'   = {[ev |-> "ice-candidate", payload |-> payload]}
           /\ lastMsg'   = Msg("ice-candidate", s, target, body)
           /\ UNCHANGED <<sockState, dataType, dataDeviceId, connectedDevices,
                          everRegistered, offlineCount, relayUp>>
      ELSE ForwardToDevice(s, "ice-candidate", "ice-candidate", target, body, payload)

IceCandidate(s, target, body) ==
    IceCandidateHandler(s, target, body) /\ UNCHANGED notRelay

\* the body of socket.on('command')
CommandHandler(s, target, body) ==
    ForwardToDevice(s, "command", "command", target, body, [command |-> body])

Command(s, target, body) ==
    CommandHandler(s, target, body) /\ UNCHANGED notRelay

\* the body of socket.on('request-files'): request-file-list goes out without a payload
RequestFilesHandler(s, target) ==
    ForwardToDevice(s, "request-files", "request-file-list", target, NoId, [none |-> NoId])

RequestFiles(s, target) ==
    RequestFilesHandler(s, target) /\ UNCHANGED notRelay

\* the body of socket.on('delete-file')
DeleteFileHandler(s, target, body) ==
    ForwardToDevice(s, "delete-file", "delete-file", target, body, [filePath |-> body])

DeleteFile(s, target, body) ==
    DeleteFileHandler(s, target, body) /\ UNCHANGED notRelay

\* the body of socket.on('file-list')
FileListHandler(s, body) ==
    LET payload == [files |-> body] IN
    /\ relayUp /\ sockState[s] = "open"
    /\ delivered' = BroadcastEmit(s, "file-list-update", payload)
    /\ emitted'   = {[ev |-> "file-list-update", payload |-> payload]}
    /\ lastMsg'   = Msg("file-list", s, NoId, body)
    /\ UNCHANGED <<sockState, dataType, dataDeviceId, connectedDevices, everRegistered, offlineCount, relayUp>>

FileList(s, body) ==
    FileListHandler(s, body) /\ UNCHANGED notRelay

\* socket.on('disconnect'): the socket has left the namespace when the handler runs
DisconnectHandler(s) ==
    /\ relayUp /\ sockState[s] = "open"
    /\ sockState' = [sockState EXCEPT ![s] = "closed"]
    /\ lastMsg'   = Msg("disconnect", s, NoId, NoId)
    /\ IF dataType[s] = "DEVICE"
         THEN LET payload == [deviceId |-> dataDeviceId[s]] IN
              /\ connectedDevices' = MapDelete(connectedDevices, s)
              /\ delivered' = {[to |-> r, ev |-> "device-offline", payload |-> payload] :
                                 r \in Open \ {s}}
              /\ emitted'   = {[ev |-> "device-offline", payload |-> payload]}
              /\ offlineCount' = [offlineCount EXCEPT ![s] = @ + 1]
         ELSE /\ delivered' = {}
              /\ emitted'   = {}
              /\ UNCHANGED <<connectedDevices, offlineCount>>
    /\ UNCHANGED <<dataType, dataDeviceId, everRegistered, relayUp>>

\* mutant: a disconnect handler that does not test socket.data.type
DisconnectAnyType(s) ==
    LET payload == [deviceId |-> dataDeviceId[s]] IN
    /\ relayUp /\ sockState[s] = "open"
    /\ sockState' = [sockState EXCEPT ![s] = "closed"]
    /\ lastMsg'   = Msg("disconnect", s, NoId, NoId)
    /\ connectedDevices' = MapDelete(connectedDevices, s)
    /\ delivered' = {[to |-> r, ev |-> "device-offline", payload |-> payload] :
                       r \in Open \ {s}}
    /\ emitted'   = {[ev |-> "device-offline", payload |-> payload]}
    /\ offlineCount' = [offlineCount EXCEPT ![s] = @ + 1]
    /\ UNCHANGED <<dataType, dataDeviceId, everRegistered, relayUp, notRelay>>

Disconnect(s) ==
    DisconnectHandler(s) /\ UNCHANGED notRelay

\* the handlers that destructure or dereference their payload throw a TypeError when
\* the event arrives without one; nothing catches it and the process exits
ThrowingEvents ==
    {"register-device", "offer", "ice-candidate", "command",
     "request-files", "file-list", "delete-file"}

MissingPayload(s, ev) ==
    /\ relayUp /\ sockState[s] = "open"
    /\ relayUp'   = FALSE
    /\ lastMsg'   = Msg(ev, s, "missing", "missing")
    /\ delivered' = {}
    /\ emitted'   = {}
    /\ UNCHANGED <<sockState, dataType, dataDeviceId, connectedDevices,
                   everRegistered, offlineCount, notRelay>>

\* events the controller and the device emit for which the relay registers no listener:
\* Socket.IO drops them
UnhandledEvents == {"download-file", "file-data", "command-success"}

UnhandledEvent(s, ev, target) ==
    /\ relayUp /\ sockState[s] = "open"
    /\ lastMsg'   = Msg(ev, s, target, NoId)
    /\ delivered' = {}
    /\ emitted'   = {}
    /\ UNCHANGED <<sockState, dataType, dataDeviceId, connectedDevices,
                   everRegistered, offlineCount, relayUp>>

Unhandled(s, ev, target) ==
    UnhandledEvent(s, ev, target) /\ UNCHANGED notRelay

RelayNext ==
    \/ \E s \in Sock : Connect(s)
    \/ \E s \in Sock, d \in DeviceIds, os \in Platforms : RegisterDevice(s, d, os)
    \/ \E s \in Sock : RegisterAdmin(s)
    \/ \E s \in Sock : GetActiveDevices(s)
    \/ \E s \in Sock, t \in Targets, b \in Bodies : Offer(s, t, b)
    \/ \E s \in Sock, t \in Targets, b \in Bodies : Answer(s, t, b)
    \/ \E s \in Sock, t \in Targets, b \in Bodies : IceCandidate(s, t, b)
    \/ \E s \in Sock, t \in DeviceIds, b \in Bodies : Command(s, t, b)
    \/ \E s \in Sock, t \in DeviceIds : RequestFiles(s, t)
    \/ \E s \in Sock, t \in DeviceIds, b \in Bodies : DeleteFile(s, t, b)
    \/ \E s \in Sock, b \in Bodies : FileList(s, b)
    \/ \E s \in Sock : Disconnect(s)
    \/ \E s \in Sock, ev \in ThrowingEvents : MissingPayload(s, ev)
    \/ \E s \in Sock, ev \in UnhandledEvents, t \in DeviceIds : Unhandled(s, ev, t)


\* ===================================================================
\*            C O N T R O L L E R   V I E W  (LiveFeed.tsx)
\* ===================================================================

Attempt     == 1..MaxAttempts
FeedSockets == {0, 1, 2}              \* the socket prop; 0 is null
FeedTargets == {"D1", "D2"}           \* the targetDeviceId prop
Statuses    == {"IDLE", "CONNECTING", "CONNECTED", "TIMEOUT", "SIMULATION"}

\* a component instance before its first effect: useState / useRef initial values
FreshFeed(active, socket, target) ==
    [mounted          |-> TRUE,
     active           |-> active,
     socket           |-> socket,
     targetDeviceId   |-> target,
     connectionStatus |-> "IDLE",
     stream           |-> FALSE,
     pcRef            |-> 0,
     timeoutRef       |-> 0,
     handlers         |-> 0,          \* the attempt whose answer / ice-candidate handlers are on
     hasCleanup       |-> FALSE]      \* the last effect run returned a cleanup function

NoFeed == [FreshFeed(FALSE, 0, "D1") EXCEPT !.mounted = FALSE]

\* an RTCPeerConnection as new RTCPeerConnection(config) returns it
NewPc ==
    [created           |-> TRUE,
     closed            |-> FALSE,
     offerPending      |-> TRUE,      \* createOffer / setLocalDescription not yet settled
     signalingState    |-> "stable",
     remoteDescription |-> FALSE,
     candidates        |-> 0]

NoPc == [NewPc EXCEPT !.created = FALSE, !.offerPending = FALSE]

FeedState == [feed |-> feed, pcs |-> pcs, deadlines |-> deadlines]

\* mutant: a teardown that forgets to close the connection
ClosePcKeep(ps, ref) == ps

\* pcRef.current.close()
ClosePc(ps, ref) ==
    IF ref # 0
      THEN [ps EXCEPT ![ref].closed = TRUE, ![ref].signalingState = "closed"]
      ELSE ps

\* mutant: a clearTimeout that leaves the timer pending
ClearTimeoutKeep(ds, ref) == ds

\* clearTimeout(timeoutRef.current)
ClearTimeout(ds, ref) == {d \in ds : d.id # ref}

\* mutant: a teardown that leaves the answer / ice-candidate listeners on
CleanupKeepHandlers(st) ==
    [feed      |-> [st.feed EXCEPT !.connectionStatus = "IDLE",
                                   !.stream = FALSE],
     pcs       |-> ClosePc(st.pcs, st.feed.pcRef),
     deadlines |-> ClearTimeout(st.deadlines, st.feed.timeoutRef)]

\* the function the effect returns
Cleanup(st) ==
    [feed      |-> [st.feed EXCEPT !.handlers = 0,
                                   !.connectionStatus = "IDLE",
                                   !.stream = FALSE],
     pcs       |-> ClosePc(st.pcs, st.feed.pcRef),
     deadlines |-> ClearTimeout(st.deadlines, st.feed.timeoutRef)]

\* the synchronous part of startCall, up to the await of createOffer;
\* captured is connectionStatus as the render that created the effect saw it
StartCall(st, a, captured) ==
    [feed      |-> [st.feed EXCEPT !.connectionStatus = "CONNECTING",
                                   !.timeoutRef = a,
                                   !.pcRef = a],
     pcs       |-> [st.pcs EXCEPT ![a] = NewPc],
     deadlines |-> ClearTimeout(st.deadlines, st.feed.timeoutRef)
                     \cup {[id |-> a, captured |-> captured]}]

EffectRuns(f) == f.active /\ f.socket # 0 /\ f.targetDeviceId # ""

\* the body of the negotiation effect
RunEffect(st, a, captured) ==
    IF ~EffectRuns(st.feed)
      THEN [st EXCEPT !.feed.hasCleanup = FALSE]
      ELSE StartCall([st EXCEPT !.feed.handlers = a, !.feed.hasCleanup = TRUE],
                     a, captured)

\* the cleanup of the previous effect run, when it returned one
RunCleanup(st) == IF st.feed.hasCleanup THEN Cleanup(st) ELSE st

FeedOp(op, a) == [op |-> op, attempt |-> a]

FeedInit ==
    /\ feed        = NoFeed
    /\ pcs         = [a \in Attempt |-> NoPc]
    /\ deadlines   = {}
    /\ offerTimers = {}
    /\ attempts    = 0
    /\ feedOp      = FeedOp("start", 0)

Install(st) ==
    /\ feed'      = st.feed
    /\ pcs'       = st.pcs
    /\ deadlines' = st.deadlines

\* the view is rendered for the first time with these props
Mount(active, socket, target) ==
    LET f0   == FreshFeed(active, socket, target)
        runs == EffectRuns(f0)
        st   == RunEffect([FeedState EXCEPT !.feed = f0], attempts + 1, "IDLE") IN
    /\ ~feed.mounted
    /\ runs => attempts < MaxAttempts
    /\ Install(st)
    /\ attempts' = IF runs THEN attempts + 1 ELSE attempts
    /\ feedOp'   = FeedOp("mount", IF runs THEN attempts + 1 ELSE 0)
    /\ UNCHANGED <<offerTimers, notFeed>>

\* a render in which active, socket or targetDeviceId differs from the last one
SetProps(active, socket, target) ==
    LET f1   == [feed EXCEPT !.active = active, !.socket = socket,
                             !.targetDeviceId = target]
        runs == EffectRuns(f1)
        cl   == RunCleanup(FeedState)
        st   == RunEffect([cl EXCEPT !.feed.active = active, !.feed.socket = socket,
                                     !.feed.targetDeviceId = target],
                          attempts + 1, feed.connectionStatus) IN
    /\ feed.mounted
    /\ <<active, socket, target>> # <<feed.active, feed.socket, feed.targetDeviceId>>
    /\ runs => attempts < MaxAttempts
    /\ Install(st)
    /\ attempts' = IF runs THEN attempts + 1 ELSE attempts
    /\ feedOp'   = FeedOp("setProps", IF runs THEN attempts + 1 ELSE 0)
    /\ UNCHANGED <<offerTimers, notFeed>>

Unmount ==
    LET cl == RunCleanup(FeedState) IN
    /\ feed.mounted
    /\ feed'      = NoFeed
    /\ pcs'       = cl.pcs
    /\ deadlines' = cl.deadlines
    /\ feedOp'    = FeedOp("unmount", 0)
    /\ UNCHANGED <<offerTimers, attempts, notFeed>>

\* createOffer and setLocalDescription resolve, and the 2 s timer is armed with the
\* socket and target of the effect's closure; a closed connection settles neither
OfferCreated(a) ==
    /\ pcs[a].offerPending /\ ~pcs[a].closed
    /\ pcs' = [pcs EXCEPT ![a].offerPending = FALSE,
                          ![a].signalingState = "have-local-offer"]
    /\ offerTimers' = offerTimers \cup
                        {[id |-> a, socket |-> feed.socket, target |-> feed.targetDeviceId]}
    /\ feedOp' = FeedOp("offerCreated", a)
    /\ UNCHANGED <<feed, deadlines, attempts, notFeed>>

\* createOffer or setLocalDescription rejects: the catch block
OfferFailed(a) ==
    /\ pcs[a].offerPending /\ ~pcs[a].closed
    /\ pcs'    = [pcs EXCEPT ![a].offerPending = FALSE]
    /\ feed'   = [feed EXCEPT !.connectionStatus = "TIMEOUT"]
    /\ feedOp' = FeedOp("offerFailed", a)
    /\ UNCHANGED <<deadlines, offerTimers, attempts, notFeed>>

\* the 2 s timer: socket.emit('offer', { target: targetDeviceId, sdp })
OfferTimerBody(a) ==
    /\ \E tm \in offerTimers : tm.id = a
    /\ offerTimers' = {tm \in offerTimers : tm.id # a}
    /\ feedOp' = FeedOp("emitOffer", a)
    /\ UNCHANGED <<feed, pcs, deadlines, attempts>>

OfferTimerFires(a) ==
    OfferTimerBody(a) /\ UNCHANGED notFeed

\* pc.onicecandidate with a candidate: gathering starts with setLocalDescription and
\* ends with close(); socket.emit('ice-candidate', { target: targetDeviceId, candidate })
FeedCandidateBody(a) ==
    /\ pcs[a].created /\ ~pcs[a].closed
    /\ pcs[a].signalingState = "have-local-offer" \/ pcs[a].remoteDescription
    /\ feedOp' = FeedOp("emitCandidate", a)
    /\ UNCHANGED <<feed, pcs, deadlines, offerTimers, attempts>>

FeedCandidate(a) ==
    FeedCandidateBody(a) /\ UNCHANGED notFeed

\* the 20 s timer: it tests the connectionStatus its closure captured
DeadlineFires(a) ==
    \E d \in deadlines :
      /\ d.id = a
      /\ deadlines' = deadlines \ {d}
      /\ feed' = IF d.captured # "CONNECTED"
                   THEN [feed EXCEPT !.connectionStatus = "TIMEOUT"]
                   ELSE feed
      /\ feedOp' = FeedOp("deadline", a)
      /\ UNCHANGED <<pcs, offerTimers, attempts, notFeed>>

\* handleAnswer; ok: setRemoteDescription accepts the description
HandleAnswerBody(ok) ==
    LET a == feed.pcRef IN
    /\ feed.handlers # 0
    /\ pcs' = IF a # 0 /\ pcs[a].signalingState = "have-local-offer" /\ ok
                THEN [pcs EXCEPT ![a].remoteDescription = TRUE,
                                 ![a].signalingState = "stable"]
                ELSE pcs
    /\ feedOp' = FeedOp("answer", a)
    /\ UNCHANGED <<feed, deadlines, offerTimers, attempts>>

HandleAnswer(ok) ==
    HandleAnswerBody(ok) /\ UNCHANGED notFeed

\* mutant: a candidate handler that does not test remoteDescription
HandleCandidateBodyUnguarded ==
    LET a == feed.pcRef IN
    /\ feed.handlers # 0
    /\ pcs' = IF a # 0
                THEN [pcs EXCEPT ![a].candidates = 1]
                ELSE pcs
    /\ feedOp' = FeedOp("candidate", a)
    /\ UNCHANGED <<feed, deadlines, offerTimers, attempts>>

\* handleCandidate
HandleCandidateBody ==
    LET a == feed.pcRef IN
    /\ feed.handlers # 0
    /\ pcs' = IF a # 0 /\ pcs[a].remoteDescription
                THEN [pcs EXCEPT ![a].candidates = 1]
                ELSE pcs
    /\ feedOp' = FeedOp("candidate", a)
    /\ UNCHANGED <<feed, deadlines, offerTimers, attempts>>

HandleCandidate ==
    HandleCandidateBody /\ UNCHANGED notFeed

\* pc.ontrack: a remote track, which an applied answer brings, on a live connection
OnTrack(a) ==
    /\ pcs[a].created /\ ~pcs[a].closed /\ pcs[a].remoteDescription
    /\ deadlines' = ClearTimeout(deadlines, feed.timeoutRef)
    /\ feed' = [feed EXCEPT !.stream = TRUE, !.connectionStatus = "CONNECTED"]
    /\ feedOp' = FeedOp("ontrack", a)
    /\ UNCHANGED <<pcs, offerTimers, attempts, notFeed>>

\* mutant: a simulation switch offered in every view
EnableSimulationAnyView ==
    /\ feed.mounted
    /\ feed'   = [feed EXCEPT !.connectionStatus = "SIMULATION"]
    /\ feedOp' = FeedOp("enableSimulation", 0)
    /\ UNCHANGED <<pcs, deadlines, offerTimers, attempts, notFeed>>

\* the SWITCH TO SIMULATION button, rendered only in the TIMEOUT view
EnableSimulation ==
    /\ feed.mounted /\ feed.connectionStatus = "TIMEOUT"
    /\ feed'   = [feed EXCEPT !.connectionStatus = "SIMULATION"]
    /\ feedOp' = FeedOp("enableSimulation", 0)
    /\ UNCHANGED <<pcs, deadlines, offerTimers, attempts, notFeed>>

FeedNext ==
    \/ \E ac \in BOOLEAN, s \in FeedSockets, t \in FeedTargets : Mount(ac, s, t)
    \/ \E ac \in BOOLEAN, s \in FeedSockets, t \in FeedTargets : SetProps(ac, s, t)
    \/ Unmount
    \/ \E a \in Attempt : OfferCreated(a)
    \/ \E a \in Attempt : OfferFailed(a)
    \/ \E a \in Attempt : OfferTimerFires(a)
    \/ \E a \in Attempt : FeedCandidate(a)
    \/ \E a \in Attempt : DeadlineFires(a)
    \/ \E ok \in BOOLEAN : HandleAnswer(ok)
    \/ HandleCandidate
    \/ \E a \in Attempt : OnTrack(a)
    \/ EnableSimulation

\* ===================================================================
\*        D E V I C E   C L I E N T  (mobile/App.tsx, part_004)
\* ===================================================================

OfferNo  == 1..MaxOffers
Versions == {"v2.2", "v4.0"}

\* the shapes of an offer payload as the device receives it:
\*   "wrapped" { target, sdp: { type: 'offer', sdp: 'v=0...' } }, what LiveFeed sends
\*   "nosdp"   an object without an sdp field
\*   "missing" no payload at all (undefined)
\*   "garbage" { sdp: { type, sdp } } whose text the WebRTC stack does not accept
Payloads == {"wrapped", "nosdp", "missing", "garbage"}

\* the statuses by which the clients report a failure
ErrorStatuses ==
    {"Camera Error: Check Permissions", "Error: Invalid SDP Format", "Call Error",
     "Error: Camera not ready", "Link Error"}

\* useState('Disconnected'), useRef(null)
NoDevice ==
    [launched  |-> FALSE,
     version   |-> "v2.2",
     status    |-> "Disconnected",
     pcRef     |-> 0,
     streamRef |-> FALSE]

\* an RTCPeerConnection as new RTCPeerConnection(configuration) returns it
NewDevicePc ==
    [created           |-> TRUE,
     closed            |-> FALSE,
     remoteDescription |-> FALSE,
     localDescription  |-> FALSE,
     onicecandidate    |-> FALSE]

NoDevicePc == [NewDevicePc EXCEPT !.created = FALSE]

\* an invocation of the offer handler: the await it is suspended at, and how it ended
NoCall == [stage |-> "none", payload |-> "wrapped", sdp |-> 0, outcome |-> "none"]

DevState == [dev |-> dev, dpcs |-> dpcs, dstreams |-> dstreams, calls |-> calls]

\* the session-description checks of the two clients:
\*   "ok" a description is handed to setRemoteDescription, "null" the handler returns,
\*   "throw" reading payload.sdp throws and the handler's catch block runs
ParseSdp(version, p) ==
    IF version = "v2.2"
      THEN IF p \in {"wrapped", "garbage"} THEN "ok" ELSE "null"
      ELSE IF p = "missing" THEN "throw"
           ELSE IF p = "nosdp" THEN "null" ELSE "ok"

\* setRemoteDescription resolves for a description the stack can parse
StackAccepts(p) == p = "wrapped"

\* the status the handler's outer catch block sets
CallError(version) == IF version = "v2.2" THEN "Call Error" ELSE "Link Error"

\* mutant: a connection whose onicecandidate is assigned when it is constructed
CreatePcGathering(st, k) ==
    [st EXCEPT !.dpcs[k] = [NewDevicePc EXCEPT !.onicecandidate = TRUE], !.dev.pcRef = k]

\* const pc = new RTCPeerConnection(configuration); pcRef.current = pc; addTrack
CreatePc(st, k) ==
    [st EXCEPT !.dpcs[k] = NewDevicePc, !.dev.pcRef = k]

\* v4.0: if (pcRef.current) { pcRef.current.close(); pcRef.current = null; }
CloseOldPc(st) ==
    IF st.dev.pcRef # 0
      THEN [st EXCEPT !.dpcs[st.dev.pcRef].closed = TRUE, !.dev.pcRef = 0]
      ELSE st

\* setStatus(status); return
Finish(st, k, outcome, status) ==
    [st EXCEPT !.calls[k].stage = "done", !.calls[k].outcome = outcome,
               !.dev.status = status]

\* v2.2, after getUserMedia resolved: the connection is created, the tracks are added,
\* and only then is the payload checked
AfterMedia(st, k) ==
    LET c == CreatePc([st EXCEPT !.dstreams = @ \cup {k}], k) IN
    IF ParseSdp("v2.2", st.calls[k].payload) = "ok"
      THEN [c EXCEPT !.calls[k].stage = "remote"]
      ELSE Finish(c, k, "invalid", "Error: Invalid SDP Format")

\* mutant: a media failure that is reported but does not end the handler
OnMediaErrorContinue(st, k) ==
    CreatePc([st EXCEPT !.calls[k].stage = "remote",
                        !.dev.status = "Camera Error: Check Permissions"], k)

\* v2.2, the catch block around getUserMedia
OnMediaError(st, k) ==
    Finish(st, k, "mediaFailed", "Camera Error: Check Permissions")

\* v2.2, the handler up to its first await
OfferV22(st, k, p) ==
    [st EXCEPT !.dev.status = "Streaming Video...",
               !.calls[k].stage = "media", !.calls[k].payload = p]

\* v4.0, the handler up to its first await: the stream was acquired at start
OfferV40(st, k, p) ==
    LET s0 == [st EXCEPT !.calls[k].payload = p]
        s1 == CreatePc(CloseOldPc([s0 EXCEPT !.dev.status = "Establishing Uplink..."]), k)
        r  == ParseSdp("v4.0", p) IN
    IF ~st.dev.streamRef
      THEN Finish(s0, k, "mediaFailed", "Error: Camera not ready")
      ELSE IF r = "throw" THEN Finish(s1, k, "invalid", CallError("v4.0"))
      ELSE IF r = "null"
             THEN [s1 EXCEPT !.calls[k].stage = "done", !.calls[k].outcome = "invalid"]
             ELSE [s1 EXCEPT !.calls[k].stage = "remote"]

DevOp(op, k) == [op |-> op, offer |-> k]

DevEmit(ev, k) == [ev |-> ev, target |-> "admin", offer |-> k]

DeviceInit ==
    /\ dev        = NoDevice
    /\ dpcs       = [k \in OfferNo |-> NoDevicePc]
    /\ dstreams   = {}
    /\ calls      = [k \in OfferNo |-> NoCall]
    /\ offersSeen = 0
    /\ devOut     = {}
    /\ devOp      = DevOp("start", 0)

DevInstall(st) ==
    /\ dev'      = st.dev
    /\ dpcs'     = st.dpcs
    /\ dstreams' = st.dstreams
    /\ calls'    = st.calls

\* the app starts and its socket connects; v4.0 acquires the camera before it connects
DevLaunch(version) ==
    /\ ~dev.launched
    /\ dev' = [NoDevice EXCEPT !.launched = TRUE, !.version = version,
                 !.status = IF version = "v2.2" THEN "Connected to Signaling Server"
                                                ELSE "Online - Awaiting Command",
                 !.streamRef = (version = "v4.0")]
    /\ dstreams' = IF version = "v4.0" THEN {0} ELSE {}
    /\ devOut'   = {[ev |-> "register-device", target |-> "relay", offer |-> 0]}
    /\ devOp'    = DevOp("launch", 0)
    /\ UNCHANGED <<dpcs, calls, offersSeen, notDevice>>

\* socket.on('offer'): the synchronous part of the handler; sdp names the description
\* the payload carries
DevOfferBody(p, sdp) ==
    LET k  == offersSeen + 1
        s0 == [DevState EXCEPT !.calls[k].sdp = sdp] IN
    /\ dev.launched
    /\ offersSeen < MaxOffers
    /\ DevInstall(IF dev.version = "v2.2" THEN OfferV22(s0, k, p)
                                          ELSE OfferV40(s0, k, p))
    /\ offersSeen' = k
    /\ devOut'     = {}
    /\ devOp'      = DevOp("offer", k)

DevOffer(p) ==
    DevOfferBody(p, 0) /\ UNCHANGED notDevice

\* v2.2: getUserMedia settles
DevMedia(k, ok) ==
    /\ calls[k].stage = "media"
    /\ DevInstall(IF ok THEN AfterMedia(DevState, k) ELSE OnMediaError(DevState, k))
    /\ devOut' = {}
    /\ devOp'  = DevOp(IF ok THEN "media" ELSE "mediaFailed", k)
    /\ UNCHANGED <<offersSeen, notDevice>>

\* setRemoteDescription settles; it rejects on a closed connection
DevRemote(k) ==
    /\ calls[k].stage = "remote"
    /\ DevInstall(IF ~dpcs[k].closed /\ StackAccepts(calls[k].payload)
                    THEN [DevState EXCEPT !.dpcs[k].remoteDescription = TRUE,
                                          !.calls[k].stage = "answer"]
                    ELSE Finish(DevState, k, "rejected", CallError(dev.version)))
    /\ devOut' = {}
    /\ devOp'  = DevOp("remote", k)
    /\ UNCHANGED <<offersSeen, notDevice>>

\* createAnswer and setLocalDescription settle; then the answer is emitted and only
\* then is onicecandidate assigned
DevAnswerBody(k, ok) ==
    /\ calls[k].stage = "answer"
    /\ IF ~dpcs[k].closed /\ ok
         THEN /\ DevInstall([DevState EXCEPT !.dpcs[k].localDescription = TRUE,
                                             !.dpcs[k].onicecandidate = TRUE,
                                             !.calls[k].stage = "done",
                                             !.calls[k].outcome = "answered"])
              /\ devOut' = {DevEmit("answer", k)}
         ELSE /\ DevInstall(Finish(DevState, k, "rejected", CallError(dev.version)))
              /\ devOut' = {}
    /\ devOp' = DevOp("answer", k)
    /\ UNCHANGED offersSeen

DevAnswer(k, ok) ==
    DevAnswerBody(k, ok) /\ UNCHANGED notDevice

\* pc.onicecandidate with a candidate
DevCandidateBody(k) ==
    /\ dpcs[k].onicecandidate /\ ~dpcs[k].closed
    /\ devOut' = {DevEmit("ice-candidate", k)}
    /\ devOp'  = DevOp("candidate", k)
    /\ UNCHANGED <<dev, dpcs, dstreams, calls, offersSeen>>

DevCandidate(k) ==
    DevCandidateBody(k) /\ UNCHANGED notDevice

DeviceNext ==
    \/ \E v \in Versions : DevLaunch(v)
    \/ \E p \in Payloads : DevOffer(p)
    \/ \E k \in OfferNo, ok \in BOOLEAN : DevMedia(k, ok)
    \/ \E k \in OfferNo : DevRemote(k)
    \/ \E k \in OfferNo, ok \in BOOLEAN : DevAnswer(k, ok)
    \/ \E k \in OfferNo : DevCandidate(k)

\* ===================================================================
\*     O N E   N E G O T I A T I O N,   E N D   T O   E N D
\* ===================================================================
\* The controller (dashboard with its LiveFeed), the relay and a v2.2 device wired
\* together: what one emits is put on the wire and handled by the next in a later step.

CtlSock == 1        \* the transport of the controller, the first to connect
DevSock == 2        \* the transport of the device

\* a message from participant s to the relay
Up(ev, s, target, body) ==
    [ev |-> ev, from |-> s, to |-> 0, target |-> target, body |-> body]

\* the deliveries the relay made for message m, as messages to the recipients
Down(m, ds) ==
    {[ev |-> e.ev, from |-> 0, to |-> e.to, target |-> m.target, body |-> m.body] :
        e \in ds}

\* the listeners a participant has registered for negotiation messages: the device has
\* one for offer only, the controller has two while its effect is installed
Listens(s, ev) ==
    \/ s = DevSock /\ dev.launched /\ ev = "offer"
    \/ feed.mounted /\ s = feed.socket /\ feed.handlers # 0
         /\ ev \in {"answer", "ice-candidate"}

\* App.tsx: socket.on('connect') emits register-admin
LinkRegisterAdmin ==
    /\ dataType[CtlSock] # "ADMIN"
    /\ RegisterAdmin(CtlSock)

\* the device app starts once its transport is up
LinkLaunch ==
    /\ sockState[DevSock] = "open"
    /\ DevLaunch("v2.2")

\* mobile/App.tsx: socket.on('connect') emits register-device
LinkRegisterDevice ==
    /\ dev.launched
    /\ KeyIndex(connectedDevices, DevSock) = 0
    /\ RegisterDevice(DevSock, "D1", "android")

\* the operator selects the listed device: LiveFeed is rendered with the controller's
\* socket and the device's id
LinkMount ==
    /\ dataType[CtlSock] = "ADMIN"
    /\ FindDevice(connectedDevices, "D1") # 0
    /\ Mount(TRUE, CtlSock, "D1")

LinkEmitOffer(a) ==
    \E tm \in offerTimers :
      /\ tm.id = a
      /\ OfferTimerBody(a)
      /\ wire' = wire \cup {Up("offer", tm.socket, tm.target, a)}
      /\ UNCHANGED <<relayVars, devVars, fileVars, dash>>

LinkFeedCandidate(a) ==
    /\ FeedCandidateBody(a)
    /\ wire' = wire \cup {Up("ice-candidate", feed.socket, feed.targetDeviceId, a)}
    /\ UNCHANGED <<relayVars, devVars, fileVars, dash>>

LinkRelayOffer ==
    \E m \in wire :
      /\ m.to = 0 /\ m.ev = "offer"
      /\ OfferHandler(m.from, m.target, m.body)
      /\ wire' = (wire \ {m}) \cup Down(m, delivered')
      /\ UNCHANGED <<feedVars, devVars, fileVars, dash>>

LinkRelayAnswer ==
    \E m \in wire :
      /\ m.to = 0 /\ m.ev = "answer"
      /\ AnswerHandler(m.from, m.target, m.body)
      /\ wire' = (wire \ {m}) \cup Down(m, delivered')
      /\ UNCHANGED <<feedVars, devVars, fileVars, dash>>

LinkRelayIceCandidate ==
    \E m \in wire :
      /\ m.to = 0 /\ m.ev = "ice-candidate"
      /\ IceCandidateHandler(m.from, m.target, m.body)
      /\ wire' = (wire \ {m}) \cup Down(m, delivered')
      /\ UNCHANGED <<feedVars, devVars, fileVars, dash>>

\* the offer arrives as LiveFeed built it: { target, sdp: { type: 'offer', sdp } }
LinkDevOffer ==
    \E m \in wire :
      /\ m.to = DevSock /\ m.ev = "offer"
      /\ DevOfferBody("wrapped", m.body)
      /\ wire' = wire \ {m}
      /\ UNCHANGED <<relayVars, feedVars, fileVars, dash>>

\* media acquisition succeeds
LinkDevMedia == \E k \in OfferNo : DevMedia(k, TRUE)

LinkDevAnswer ==
    \E k \in OfferNo :
      /\ DevAnswerBody(k, TRUE)
      /\ wire' = wire \cup {Up("answer", DevSock, "admin", calls[k].sdp)}
      /\ UNCHANGED <<relayVars, feedVars, fileVars, dash>>

LinkDevCandidate ==
    \E k \in OfferNo :
      /\ DevCandidateBody(k)
      /\ wire' = wire \cup {Up("ice-candidate", DevSock, "admin", calls[k].sdp)}
      /\ UNCHANGED <<relayVars, feedVars, fileVars, dash>>

LinkHandleAnswer ==
    \E m \in wire :
      /\ m.to # 0 /\ m.ev = "answer" /\ Listens(m.to, m.ev)
      /\ HandleAnswerBody(TRUE)
      /\ wire' = wire \ {m}
      /\ UNCHANGED <<relayVars, devVars, fileVars, dash>>

LinkHandleCandidate ==
    \E m \in wire :
      /\ m.to # 0 /\ m.ev = "ice-candidate" /\ Listens(m.to, m.ev)
      /\ HandleCandidateBody
      /\ wire' = wire \ {m}
      /\ UNCHANGED <<relayVars, devVars, fileVars, dash>>

\* a message for which its recipient has no listener is dropped by the client library
LinkDrop ==
    \E m \in wire :
      /\ m.to # 0 /\ ~Listens(m.to, m.ev)
      /\ wire' = wire \ {m}
      /\ UNCHANGED <<relayVars, feedVars, devVars, fileVars, dash>>

LinkNext ==
    \/ \E s \in Sock : Connect(s)
    \/ LinkRegisterAdmin
    \/ LinkLaunch
    \/ LinkRegisterDevice
    \/ LinkMount
    \/ \E a \in Attempt : OfferCreated(a)
    \/ \E a \in Attempt : LinkEmitOffer(a)
    \/ \E a \in Attempt : LinkFeedCandidate(a)
    \/ \E a \in Attempt : DeadlineFires(a)
    \/ EnableSimulation
    \/ LinkRelayOffer
    \/ LinkRelayAnswer
    \/ LinkRelayIceCandidate
    \/ LinkDevOffer
    \/ LinkDevMedia
    \/ \E k \in OfferNo : DevRemote(k)
    \/ LinkDevAnswer
    \/ LinkDevCandidate
    \/ LinkHandleAnswer
    \/ LinkHandleCandidate
    \/ \E a \in Attempt : OnTrack(a)
    \/ LinkDrop

\* the event loops run every ready callback, timers expire, connections are made at
\* start, transports deliver; the operator's actions and the candidates are not forced
LinkFairness ==
    /\ WF_vars(Connect(CtlSock)) /\ WF_vars(Connect(DevSock))
    /\ WF_vars(LinkRegisterAdmin) /\ WF_vars(LinkLaunch) /\ WF_vars(LinkRegisterDevice)
    /\ WF_vars(LinkMount)
    /\ WF_vars(\E a \in Attempt : OfferCreated(a))
    /\ WF_vars(\E a \in Attempt : LinkEmitOffer(a))
    /\ WF_vars(LinkRelayOffer) /\ WF_vars(LinkRelayAnswer) /\ WF_vars(LinkRelayIceCandidate)
    /\ WF_vars(LinkDevOffer) /\ WF_vars(LinkDevMedia)
    /\ WF_vars(\E k \in OfferNo : DevRemote(k))
    /\ WF_vars(LinkDevAnswer)
    /\ WF_vars(LinkHandleAnswer) /\ WF_vars(LinkHandleCandidate)
    /\ WF_vars(\E a \in Attempt : OnTrack(a))
    /\ WF_vars(LinkDrop)

\* Sessions: the same wiring, with an operator who also deselects and reselects devices,
\* closes the view and opens it again, and a createOffer that may fail.  The candidates
\* are followed end to end in LinkNext; here the device's are emitted and not followed.
SessionNext ==
    \/ \E s \in {CtlSock, DevSock} : Connect(s)
    \/ LinkRegisterAdmin
    \/ LinkLaunch
    \/ LinkRegisterDevice
    \/ LinkMount
    \/ \E ac \in BOOLEAN, t \in FeedTargets : SetProps(ac, CtlSock, t)
    \/ Unmount
    \/ \E a \in Attempt : OfferCreated(a)
    \/ \E a \in Attempt : OfferFailed(a)
    \/ \E a \in Attempt : LinkEmitOffer(a)
    \/ \E a \in Attempt : DeadlineFires(a)
    \/ EnableSimulation
    \/ LinkRelayOffer
    \/ LinkRelayAnswer
    \/ LinkDevOffer
    \/ LinkDevMedia
    \/ \E k \in OfferNo : DevRemote(k)
    \/ LinkDevAnswer
    \/ \E k \in OfferNo : DevCandidate(k)
    \/ LinkHandleAnswer
    \/ \E a \in Attempt : OnTrack(a)
    \/ LinkDrop

\* ===================================================================
\*      F I L E   M A N A G E R  and the device's storage
\* ===================================================================
\* The controller's FileManager (unnamed/part_001), the relay's file handlers and the
\* device's request-file-list / delete-file handlers, wired by the messages in flight.

\* number of directory entries ever created on the device
MaxFiles == 2

\* number of times the operator opens the file manager
MaxOpens == 2

\* modification times
Dates == {1, 2}

\* the directories entries are created in; no client scans "Music"
Dirs == {"DCIM/Camera", "Download", "Music"}

\* pathsToCheck of the v2.2 client, in its order, and the single path of the v4.0 client
ScanPathsV22 == <<"DCIM/Camera", "Pictures", "Download", "Documents">>
ScanPathsV40 == <<"DCIM/Camera">>

\* allFiles.slice(0, 100) and result.filter(...).slice(0, 50)
CapV22 == 100
CapV40 == 50

\* useState initial values of FileManager
NoFm ==
    [open          |-> FALSE,
     target        |-> NoId,
     files         |-> << >>,
     loading       |-> TRUE,
     selectedPaths |-> {}]

FmOp(op, msgs) == [op |-> op, msgs |-> msgs]

FilesInit ==
    /\ fm    = NoFm
    /\ fmOut = FmOp("start", << >>)
    /\ dfs   = [entries |-> << >>, unreadable |-> {}, created |-> 0]
    /\ opens = 0

\* the elements of a sequence
Range(seq) == {seq[i] : i \in 1..Len(seq)}

\* Array.prototype.slice(0, n)
Slice(seq, n) == SubSeq(seq, 1, IF Len(seq) < n THEN Len(seq) ELSE n)

\* { name, path, size, date: mtime } of a directory entry
FileItem(e) == [path |-> e.path, date |-> e.date]

RECURSIVE MapItems(_)
MapItems(es) ==
    IF es = << >> THEN << >> ELSE <<FileItem(Head(es))>> \o MapItems(Tail(es))

\* RNFS.readDir(path) of a readable directory, then filter(f => f.isFile())
RegularFiles(fs, d) ==
    SelectSeq(fs.entries, LAMBDA e : e.dir = d /\ e.isFile)

\* the loop over pathsToCheck: a path whose readDir throws is skipped
RECURSIVE Gather(_, _, _)
Gather(fs, paths, i) ==
    IF i > Len(paths) THEN << >>
    ELSE (IF paths[i] \in fs.unreadable THEN << >>
          ELSE MapItems(RegularFiles(fs, paths[i])))
         \o Gather(fs, paths, i + 1)

\* insertion of x behind the items that are not older than it
RECURSIVE InsertByDate(_, _)
InsertByDate(sorted, x) ==
    IF sorted = << >> THEN <<x>>
    ELSE IF Head(sorted).date >= x.date
           THEN <<Head(sorted)>> \o InsertByDate(Tail(sorted), x)
           ELSE <<x>> \o sorted

\* allFiles.sort((a, b) => new Date(b.date) - new Date(a.date)): newest first, stable
RECURSIVE SortByDateDesc(_)
SortByDateDesc(items) ==
    IF items = << >> THEN << >>
    ELSE InsertByDate(SortByDateDesc(SubSeq(items, 1, Len(items) - 1)),
                      items[Len(items)])

\* the list the v2.2 request-file-list handler sends
ScanV22(fs) == Slice(SortByDateDesc(Gather(fs, ScanPathsV22, 1)), CapV22)

\* the list the v4.0 handler sends: exists / readDir fail, or the first 50 regular
\* files in directory order
ScanV40(fs) ==
    IF ScanPathsV40[1] \in fs.unreadable THEN << >>
    ELSE MapItems(Slice(RegularFiles(fs, ScanPathsV40[1]), CapV40))

Scan(version, fs) == IF version = "v2.2" THEN ScanV22(fs) ELSE ScanV40(fs)

\* the selected paths in the order forEach visits them
RECURSIVE InOrder(_)
InOrder(paths) ==
    IF paths = {} THEN << >>
    ELSE LET p == CHOOSE q \in paths : \A r \in paths : q <= r
         IN  <<p>> \o InOrder(paths \ {p})

\* selectedPaths.forEach(path => socket.emit('delete-file', { targetDeviceId, filePath }))
RECURSIVE DeleteMessages(_, _)
DeleteMessages(target, order) ==
    IF order = << >> THEN << >>
    ELSE <<Up("delete-file", CtlSock, target, Head(order))>>
         \o DeleteMessages(target, Tail(order))

\* mutant: a removal that drops the first listed file whatever was selected
RemoveSelectedFirst(files, sel) ==
    IF files = << >> THEN files ELSE Tail(files)

\* prev.filter(f => !selectedPaths.has(f.path))
RemoveSelected(files, sel) ==
    SelectSeq(files, LAMBDA f : f.path \notin sel)

\* a file or directory appears on the device
FsCreate(d, isFile, t) ==
    /\ dfs.created < MaxFiles
    /\ dfs' = [dfs EXCEPT !.created = @ + 1,
                          !.entries = Append(@, [path |-> dfs.created + 1, dir |-> d,
                                                 isFile |-> isFile, date |-> t])]
    /\ UNCHANGED <<fm, fmOut, opens, relayVars, feedVars, devVars, dash, wire>>

\* a directory becomes unreadable (removed, or the permission is withdrawn)
FsFail(d) ==
    /\ dfs.unreadable = {}
    /\ dfs' = [dfs EXCEPT !.unreadable = {d}]
    /\ UNCHANGED <<fm, fmOut, opens, relayVars, feedVars, devVars, dash, wire>>

\* the camera roll as the file manager's scenario finds it: pictures taken before the
\* app was started
FilesCreate(t) ==
    /\ ~dev.launched
    /\ FsCreate("DCIM/Camera", TRUE, t)

\* the operator opens the file manager for the selected device: the effect sets loading,
\* emits request-files and registers the file-list-update listener
FmOpen(target) ==
    /\ ~fm.open
    /\ opens < MaxOpens
    /\ dataType[CtlSock] = "ADMIN"
    /\ FindDevice(connectedDevices, target) # 0
    /\ fm'    = [NoFm EXCEPT !.open = TRUE, !.target = target]
    /\ fmOut' = FmOp("open", <<Up("request-files", CtlSock, target, NoId)>>)
    /\ wire'  = wire \cup Range(fmOut'.msgs)
    /\ opens' = opens + 1
    /\ UNCHANGED <<dfs, relayVars, feedVars, devVars, dash>>

\* handleFileList
FmFileList ==
    \E m \in wire :
      /\ m.to = CtlSock /\ m.ev = "file-list-update"
      /\ fm.open
      /\ fm'    = [fm EXCEPT !.files = m.body, !.loading = FALSE]
      /\ fmOut' = FmOp("fileList", << >>)
      /\ wire'  = wire \ {m}
      /\ UNCHANGED <<dfs, opens, relayVars, feedVars, devVars, dash>>

\* toggleSelect on a listed file
FmToggleSelect(p) ==
    /\ fm.open
    /\ \E i \in 1..Len(fm.files) : fm.files[i].path = p
    /\ fm'    = [fm EXCEPT !.selectedPaths = IF p \in @ THEN @ \ {p} ELSE @ \cup {p}]
    /\ fmOut' = FmOp("toggle", << >>)
    /\ UNCHANGED <<dfs, opens, relayVars, feedVars, devVars, dash, wire>>

\* handleDelete; with an empty selection it returns at once
FmDelete ==
    /\ fm.open
    /\ fm.selectedPaths # {}
    /\ fmOut' = FmOp("delete", DeleteMessages(fm.target, InOrder(fm.selectedPaths)))
    /\ wire'  = wire \cup Range(fmOut'.msgs)
    /\ fm'    = [fm EXCEPT !.files = RemoveSelected(@, fm.selectedPaths),
                           !.selectedPaths = {}]
    /\ UNCHANGED <<dfs, opens, relayVars, feedVars, devVars, dash>>

\* onClose: the component unmounts and its listeners are removed
FmClose ==
    /\ fm.open
    /\ fm'    = NoFm
    /\ fmOut' = FmOp("close", << >>)
    /\ UNCHANGED <<dfs, opens, relayVars, feedVars, devVars, dash, wire>>

FilesRelayRequest ==
    \E m \in wire :
      /\ m.to = 0 /\ m.ev = "request-files"
      /\ RequestFilesHandler(m.from, m.target)
      /\ wire' = (wire \ {m}) \cup Down(m, delivered')
      /\ UNCHANGED <<feedVars, devVars, fileVars, dash>>

FilesRelayFileList ==
    \E m \in wire :
      /\ m.to = 0 /\ m.ev = "file-list"
      /\ FileListHandler(m.from, m.body)
      /\ wire' = (wire \ {m}) \cup Down(m, delivered')
      /\ UNCHANGED <<feedVars, devVars, fileVars, dash>>

FilesRelayDelete ==
    \E m \in wire :
      /\ m.to = 0 /\ m.ev = "delete-file"
      /\ DeleteFileHandler(m.from, m.target, m.body)
      /\ wire' = (wire \ {m}) \cup Down(m, delivered')
      /\ UNCHANGED <<feedVars, devVars, fileVars, dash>>

\* the device's command-success has no listener on the relay
FilesRelayUnhandled ==
    \E m \in wire :
      /\ m.to = 0 /\ m.ev \in UnhandledEvents
      /\ UnhandledEvent(m.from, m.ev, m.target)
      /\ wire' = wire \ {m}
      /\ UNCHANGED <<feedVars, devVars, fileVars, dash>>

\* socket.on('request-file-list') of the device
DevRequestFileList ==
    \E m \in wire :
      /\ m.to = DevSock /\ m.ev = "request-file-list"
      /\ dev.launched
      /\ wire' = (wire \ {m})
                   \cup {Up("file-list", DevSock, NoId, Scan(dev.version, dfs))}
      /\ UNCHANGED <<relayVars, feedVars, devVars, fileVars, dash>>

\* socket.on('delete-file') of the v2.2 device: unlink, and command-success when it
\* succeeded
DevDeleteFile ==
    \E m \in wire :
      LET there == \E i \in 1..Len(dfs.entries) : dfs.entries[i].path = m.body IN
      /\ m.to = DevSock /\ m.ev = "delete-file"
      /\ dev.launched /\ dev.version = "v2.2"
      /\ dfs'  = [dfs EXCEPT !.entries = SelectSeq(@, LAMBDA e : e.path # m.body)]
      /\ wire' = (wire \ {m})
                   \cup (IF there THEN {Up("command-success", DevSock, NoId, m.body)}
                                  ELSE {})
      /\ UNCHANGED <<fm, fmOut, opens, relayVars, feedVars, devVars, dash>>

\* the file listeners of the participants
FilesListens(s, ev) ==
    \/ s = DevSock /\ dev.launched /\ ev = "request-file-list"
    \/ s = DevSock /\ dev.launched /\ dev.version = "v2.2" /\ ev = "delete-file"
    \/ s = CtlSock /\ fm.open /\ ev = "file-list-update"

FilesDrop ==
    \E m \in wire :
      /\ m.to # 0 /\ ~FilesListens(m.to, m.ev)
      /\ wire' = wire \ {m}
      /\ UNCHANGED <<relayVars, feedVars, devVars, fileVars, dash>>

FilesNext ==
    \/ \E s \in {CtlSock, DevSock} : Connect(s)
    \/ LinkRegisterAdmin
    \/ LinkLaunch
    \/ LinkRegisterDevice
    \/ \E t \in Dates : FilesCreate(t)
    \/ FmOpen("D1")
    \/ FmFileList
    \/ \E p \in 1..MaxFiles : FmToggleSelect(p)
    \/ FmDelete
    \/ FmClose
    \/ FilesRelayRequest
    \/ FilesRelayFileList
    \/ FilesRelayDelete
    \/ FilesRelayUnhandled
    \/ DevRequestFileList
    \/ DevDeleteFile
    \/ FilesDrop

\* The device's listing on its own: any storage, either client version, a
\* request-file-list handed to the device and its reply taken by the transport.
ScanRequest ==
    /\ dev.launched
    /\ wire' = wire \cup {[ev |-> "request-file-list", from |-> 0, to |-> DevSock,
                            target |-> NoId, body |-> NoId]}
    /\ UNCHANGED <<relayVars, feedVars, devVars, fileVars, dash>>

ScanTaken ==
    \E m \in wire :
      /\ m.to = 0 /\ m.ev = "file-list"
      /\ wire' = wire \ {m}
      /\ UNCHANGED <<relayVars, feedVars, devVars, fileVars, dash>>

ScanNext ==
    \/ \E v \in Versions : DevLaunch(v)
    \/ \E d \in Dirs, f \in BOOLEAN, t \in Dates : FsCreate(d, f, t)
    \/ \E d \in Dirs : FsFail(d)
    \/ ScanRequest
    \/ DevRequestFileList
    \/ ScanTaken

\* ===================================================================
\*       D E V I C E   L I S T  (dashboard App.tsx) and the registry
\* ===================================================================

\* dash[s] is the client behind transport s: a device app with its DEVICE_ID and the
\* number of request-file-list events it has not answered yet, or a dashboard with its
\* devices state and the state of its file manager; sent counts the messages of its
\* connect handler that have gone out.  The dashboard has no device selected (useState(null)), so the
\* device-offline handler changes the list only.
NoClient ==
    [kind |-> "none", deviceId |-> NoId, sent |-> 0, devices |-> << >>,
     fmOpen |-> FALSE, fmTarget |-> NoId, files |-> << >>, loading |-> TRUE,
     pending |-> 0, selected |-> NoId]

\* the transports of the device-list scenario: three clients
RosterTransports == 1..(NSock + 1)

RosterInit ==
    dash = [s \in Transport |-> NoClient]

\* setDevices(prev => prev.find(d => d.deviceId === device.deviceId) ? prev : [...prev, device])
OnDeviceOnline(prev, device) ==
    IF \E i \in 1..Len(prev) : prev[i].deviceId = device.deviceId
      THEN prev
      ELSE Append(prev, device)

\* setDevices(prev => prev.filter(d => d.deviceId !== deviceId))
OnDeviceOffline(prev, deviceId) ==
    SelectSeq(prev, LAMBDA d : d.deviceId # deviceId)

\* the dashboards a relay emission reaches
Dashboards(among) == {c \in among : dash[c].kind = "dashboard"}

\* io(SERVER_URL) of a device app: the transport connects
RosterConnectDevice(s, id) ==
    /\ ConnectionHandler(s)
    /\ dash' = [dash EXCEPT ![s] = [NoClient EXCEPT !.kind = "device", !.deviceId = id]]
    /\ UNCHANGED <<feedVars, devVars, fileVars, wire>>

\* io(SERVER_URL) of a dashboard: the transport connects
RosterConnectDashboard(s) ==
    /\ ConnectionHandler(s)
    /\ dash' = [dash EXCEPT ![s] = [NoClient EXCEPT !.kind = "dashboard"]]
    /\ UNCHANGED <<feedVars, devVars, fileVars, wire>>

\* the device's connect handler emits register-device; the relay stores the entry and
\* emits device-online, which every connected dashboard applies
RosterRegisterDevice(s) ==
    LET deviceInfo == [deviceId |-> dash[s].deviceId, os |-> "android", socketId |-> s] IN
    /\ dash[s].kind = "device" /\ dash[s].sent = 0
    /\ RegisterDeviceHandler(s, dash[s].deviceId, "android")
    /\ dash' = [c \in Transport |->
                 IF c = s THEN [dash[c] EXCEPT !.sent = 1]
                 ELSE IF c \in Dashboards(Open)
                   THEN [dash[c] EXCEPT !.devices = OnDeviceOnline(@, deviceInfo)]
                 ELSE dash[c]]
    /\ UNCHANGED <<feedVars, devVars, fileVars, wire>>

\* the dashboard's connect handler emits register-admin first
RosterRegisterAdmin(s) ==
    /\ dash[s].kind = "dashboard" /\ dash[s].sent = 0
    /\ RegisterAdminHandler(s)
    /\ dash' = [dash EXCEPT ![s].sent = 1]
    /\ UNCHANGED <<feedVars, devVars, fileVars, wire>>

\* then get-active-devices; the reply replaces the dashboard's list
RosterGetActiveDevices(s) ==
    /\ dash[s].kind = "dashboard" /\ dash[s].sent = 1
    /\ GetActiveDevicesHandler(s)
    /\ dash' = [dash EXCEPT ![s].sent = 2, ![s].devices = connectedDevices]
    /\ UNCHANGED <<feedVars, devVars, fileVars, wire>>

\* a transport closes; for a DEVICE socket the relay emits device-offline, which every
\* other connected dashboard applies
RosterDisconnect(s) ==
    /\ DisconnectHandler(s)
    /\ dash' = [c \in Transport |->
                 IF dataType[s] = "DEVICE" /\ c \in Dashboards(Open \ {s})
                   THEN [dash[c] EXCEPT !.devices = OnDeviceOffline(@, dataDeviceId[s])]
                   ELSE dash[c]]
    /\ UNCHANGED <<feedVars, devVars, fileVars, wire>>

RosterNext ==
    \/ \E s \in RosterTransports, id \in DeviceIds : RosterConnectDevice(s, id)
    \/ \E s \in RosterTransports : RosterConnectDashboard(s)
    \/ \E s \in RosterTransports : RosterRegisterDevice(s)
    \/ \E s \in RosterTransports : RosterRegisterAdmin(s)
    \/ \E s \in RosterTransports : RosterGetActiveDevices(s)
    \/ \E s \in RosterTransports : RosterDisconnect(s)

\* a connected client's connect handler runs and the relay handles what it emits
RosterFairness ==
    \A s \in RosterTransports :
        /\ WF_vars(RosterRegisterDevice(s))
        /\ WF_vars(RosterRegisterAdmin(s))
        /\ WF_vars(RosterGetActiveDevices(s))

\* Two dashboards, each browsing the files of its own device: transports 1 and 2 are
\* the dashboards, 3 and 4 the devices.  Deliveries are applied in the relay step, as
\* in the device-list scenario.
BrowseControllers == {1, 2}
BrowseDevices     == {3, 4}

\* DEVICE_ID of the device behind a transport
BrowseIdOf(s) == IF s = 3 THEN "D1" ELSE "D2"

\* the device the operator of a dashboard selects
BrowseTargetOf(c) == IF c = 1 THEN "D1" ELSE "D2"

\* the list a device reports: each device holds one file of its own
StorageOf(id) == <<[path |-> IF id = "D1" THEN 1 ELSE 2, date |-> 1]>>

\* the operator selects a listed device and opens the file manager: the effect emits
\* request-files, which the relay forwards to the first matching entry
BrowseOpen(c) ==
    LET target == BrowseTargetOf(c) IN
    /\ dash[c].kind = "dashboard" /\ dash[c].sent = 2 /\ ~dash[c].fmOpen
    /\ \E i \in 1..Len(dash[c].devices) : dash[c].devices[i].deviceId = target
    /\ \A d \in BrowseDevices : dash[d].pending < MaxOpens
    /\ RequestFilesHandler(c, target)
    /\ dash' = [x \in Transport |->
                 IF x = c
                   THEN [dash[x] EXCEPT !.fmOpen = TRUE, !.fmTarget = target,
                                        !.files = << >>, !.loading = TRUE]
                 ELSE IF \E m \in delivered' : m.to = x /\ m.ev = "request-file-list"
                   THEN [dash[x] EXCEPT !.pending = @ + 1]
                 ELSE dash[x]]
    /\ UNCHANGED <<feedVars, devVars, fileVars, wire>>

\* a device answers a request-file-list: it emits file-list, the relay broadcasts
\* file-list-update, and every dashboard whose file manager is open runs handleFileList
BrowseReply(d) ==
    LET body == StorageOf(dash[d].deviceId) IN
    /\ dash[d].kind = "device" /\ dash[d].pending > 0
    /\ FileListHandler(d, body)
    /\ dash' = [x \in Transport |->
                 IF x = d
                   THEN [dash[x] EXCEPT !.pending = @ - 1]
                 ELSE IF /\ \E m \in delivered' : m.to = x /\ m.ev = "file-list-update"
                         /\ dash[x].fmOpen
                   THEN [dash[x] EXCEPT !.files = body, !.loading = FALSE]
                 ELSE dash[x]]
    /\ UNCHANGED <<feedVars, devVars, fileVars, wire>>

\* the file manager is closed: its listeners are removed and its state is dropped
BrowseClose(c) ==
    /\ dash[c].fmOpen
    /\ dash' = [dash EXCEPT ![c].fmOpen = FALSE, ![c].fmTarget = NoId,
                            ![c].files = << >>, ![c].loading = TRUE]
    /\ UNCHANGED <<relayVars, feedVars, devVars, fileVars, wire>>

BrowseNext ==
    \/ \E c \in BrowseControllers : RosterConnectDashboard(c)
    \/ \E d \in BrowseDevices : RosterConnectDevice(d, BrowseIdOf(d))
    \/ \E c \in BrowseControllers : RosterRegisterAdmin(c)
    \/ \E c \in BrowseControllers : RosterGetActiveDevices(c)
    \/ \E d \in BrowseDevices : RosterRegisterDevice(d)
    \/ \E c \in BrowseControllers : BrowseOpen(c)
    \/ \E d \in BrowseDevices : BrowseReply(d)
    \/ \E c \in BrowseControllers : BrowseClose(c)

\* The dashboard's selection and commands: a device on the first transport, the
\* dashboard on the following ones.  React state (devices, selectedDevice) outlives a
\* socket, so it moves with the dashboard to the transport of its next socket.
ConsoleDevice     == 1
ConsoleTransports == Transport \ {ConsoleDevice}

\* the commands of the three buttons
ButtonCommands == {"WIPE_DATA", "LOCK_DEVICE", "TRIGGER_ALARM"}

\* targetDeviceId of a payload that has no such field
Undefined == "undefined"

\* setSelectedDevice changes a dependency of the socket effect: its cleanup closes the
\* socket, which the relay sees as a disconnect, and the effect creates a new socket
SetSelectedDevice(c, device) ==
    /\ dash[c].kind = "dashboard"
    /\ c + 1 \in Transport
    /\ DisconnectHandler(c)
    /\ dash' = [dash EXCEPT ![c]     = NoClient,
                            ![c + 1] = [dash[c] EXCEPT !.sent = 0, !.selected = device]]
    /\ UNCHANGED <<feedVars, devVars, fileVars, wire>>

\* handleSelectDevice, offered on the selection screen for a listed device
ConsoleSelect(c, id) ==
    /\ dash[c].selected = NoId
    /\ \E i \in 1..Len(dash[c].devices) : dash[c].devices[i].deviceId = id
    /\ SetSelectedDevice(c, id)

\* the DISCONNECT button: setSelectedDevice(null)
ConsoleDeselect(c) ==
    /\ dash[c].selected # NoId
    /\ SetSelectedDevice(c, NoId)

\* the new socket of the dashboard connects
ConsoleReconnect(c) ==
    /\ dash[c].kind = "dashboard"
    /\ ConnectionHandler(c)
    /\ UNCHANGED <<dash, feedVars, devVars, fileVars, wire>>

\* handleWipeData, handleLockDevice, handleAlarm
ConsoleCommand(c, cmd) ==
    /\ dash[c].kind = "dashboard" /\ dash[c].selected # NoId
    /\ CommandHandler(c, dash[c].selected, cmd)
    /\ UNCHANGED <<dash, feedVars, devVars, fileVars, wire>>

\* the effect of LocationMap, rendered while a device is selected
ConsoleLocate(c) ==
    /\ dash[c].kind = "dashboard" /\ dash[c].selected # NoId
    /\ CommandHandler(c, Undefined, "GET_LOCATION")
    /\ UNCHANGED <<dash, feedVars, devVars, fileVars, wire>>

ConsoleNext ==
    \/ \E id \in DeviceIds : RosterConnectDevice(ConsoleDevice, id)
    \/ RosterRegisterDevice(ConsoleDevice)
    \/ RosterConnectDashboard(ConsoleDevice + 1)
    \/ \E c \in ConsoleTransports : RosterRegisterAdmin(c)
    \/ \E c \in ConsoleTransports : RosterGetActiveDevices(c)
    \/ \E c \in ConsoleTransports, id \in DeviceIds : ConsoleSelect(c, id)
    \/ \E c \in ConsoleTransports : ConsoleDeselect(c)
    \/ \E c \in ConsoleTransports : ConsoleReconnect(c)
    \/ \E c \in ConsoleTransports, cmd \in ButtonCommands : ConsoleCommand(c, cmd)
    \/ \E c \in ConsoleTransports : ConsoleLocate(c)

\* ===================================================================
\*                       S P E C I F I C A T I O N S
\* ===================================================================

Init == RelayInit /\ FeedInit /\ DeviceInit /\ FilesInit /\ RosterInit /\ wire = {}

SpecRelay == Init /\ [][RelayNext]_vars

SpecFeed  == Init /\ [][FeedNext]_vars

SpecDevice == Init /\ [][DeviceNext]_vars

SpecLink == Init /\ [][LinkNext]_vars /\ LinkFairness

SpecSession == Init /\ [][SessionNext]_vars

SpecFiles == Init /\ [][FilesNext]_vars

SpecScan == Init /\ [][ScanNext]_vars

SpecRoster == Init /\ [][RosterNext]_vars /\ RosterFairness

SpecBrowse == Init /\ [][BrowseNext]_vars

SpecConsole == Init /\ [][ConsoleNext]_vars

Next == RelayNext \/ FeedNext \/ DeviceNext \/ LinkNext \/ SessionNext \/ FilesNext \/ ScanNext
            \/ RosterNext \/ BrowseNext \/ ConsoleNext

Spec == Init /\ [][Next]_vars

\* ===================================================================
\*                    P R O P E R T I E S :  R E L A Y
\* ===================================================================

\* the records of a device list that are stored for transport s
RecordsOf(list, s) == {i \in 1..Len(list) : list[i].socketId = s}

\* the registry entries whose deviceId is id
Matching(reg, id) == {i \in 1..Len(reg) : reg[i].deviceId = id}

\* the earliest of them in insertion order
FirstMatching(reg, id) ==
    CHOOSE i \in Matching(reg, id) : \A j \in Matching(reg, id) : i <= j

Recipients == {e.to : e \in delivered}

\* C1: every active-devices-list reply holds exactly one record for each transport that
\* has sent register-device and is still connected, and none for a transport that has
\* disconnected.
C1_ActiveListExact ==
    \A e \in delivered :
        e.ev = "active-devices-list" =>
            /\ \A s \in Sock :
                 (s \in everRegistered /\ sockState[s] = "open")
                     => Cardinality(RecordsOf(e.payload.list, s)) = 1
            /\ \A s \in Sock :
                 sockState[s] = "closed" => RecordsOf(e.payload.list, s) = {}

\* C2: once the transport of a participant that registered as a device has closed,
\* exactly one device-offline has been emitted for that close, and it was emitted by the
\* time of any later active-devices-list reply, which does not list that transport.
C2_OfflineExactlyOnce ==
    \A s \in Sock :
        (sockState[s] = "closed" /\ s \in everRegistered) =>
            /\ offlineCount[s] = 1
            /\ \A e \in delivered :
                 e.ev = "active-devices-list" => RecordsOf(e.payload.list, s) = {}

\* C3: a command for a deviceId that two or more registry entries share is delivered to
\* exactly one transport, the one of the earliest such entry in insertion order.
C3_CommandToFirstEntry ==
    (/\ lastMsg.ev = "command"
     /\ lastMsg.target \in DeviceIds
     /\ Cardinality(Matching(connectedDevices, lastMsg.target)) >= 2)
        => /\ Cardinality(delivered) = 1
           /\ Recipients =
                {connectedDevices[FirstMatching(connectedDevices, lastMsg.target)].socketId}

\* C4: a command, offer, device-targeted ice-candidate, request-files or delete-file whose
\* target matches no registry entry is delivered to nobody, answers nothing to its sender,
\* leaves the registry unchanged and leaves the relay running.
TargetedEvents == {"command", "offer", "ice-candidate", "request-files", "delete-file"}

C4_UnknownTargetDropped ==
    [][ (/\ lastMsg'.ev \in TargetedEvents
         /\ lastMsg'.target \in DeviceIds
         /\ Matching(connectedDevices, lastMsg'.target) = {})
            => /\ delivered' = {}
               /\ emitted' = {}
               /\ connectedDevices' = connectedDevices
               /\ relayUp'
               /\ \A s \in Sock : sockState'[s] = "open" => ENABLED RegisterAdmin(s)
      ]_vars

\* a device D1 is registered and connected, and an offer for D2 has just been dropped
C4_Witness ==
    /\ lastMsg.ev = "offer"
    /\ lastMsg.target = "D2"
    /\ Len(connectedDevices) = 1
    /\ connectedDevices[1].deviceId = "D1"
    /\ sockState[connectedDevices[1].socketId] = "open"
    /\ delivered = {}
    /\ relayUp

\* C5: an answer or ice-candidate whose target is "admin" is delivered to every connected
\* participant identified as a controller and to nobody else.
C5_AdminTargetToControllersOnly ==
    (lastMsg.ev \in {"answer", "ice-candidate"} /\ lastMsg.target = "admin")
        => Recipients = {s \in Open : dataType[s] = "ADMIN"}

\* C6: an offer, answer or ice-candidate whose target is a registered deviceId is
\* delivered to exactly one participant, the earliest registry entry with that deviceId.
C6_DeviceTargetToFirstEntry ==
    (/\ lastMsg.ev \in {"offer", "answer", "ice-candidate"}
     /\ lastMsg.target \in DeviceIds
     /\ Matching(connectedDevices, lastMsg.target) # {})
        => /\ Cardinality(delivered) = 1
           /\ Recipients =
                {connectedDevices[FirstMatching(connectedDevices, lastMsg.target)].socketId}

\* C13: a register-device from a transport that already has an entry replaces that entry
\* in place, so no transport ever has two entries; and every register-device emits exactly
\* one device-online carrying the record just stored (deviceId, platform, transport).
C13_RegisterReplaces ==
    /\ [](\A s \in Sock : Cardinality(RecordsOf(connectedDevices, s)) <= 1)
    /\ [][ (lastMsg'.ev = "register-device" /\ lastMsg'.target \in DeviceIds) =>
             LET s   == lastMsg'.from
                 rec == [deviceId |-> lastMsg'.target, os |-> lastMsg'.body, socketId |-> s]
             IN  /\ emitted' = {[ev |-> "device-online", payload |-> rec]}
                 /\ {connectedDevices'[i] : i \in RecordsOf(connectedDevices', s)} = {rec}
                 /\ Len(connectedDevices') =
                      IF RecordsOf(connectedDevices, s) = {}
                        THEN Len(connectedDevices) + 1
                        ELSE Len(connectedDevices)
                 /\ \A i \in 1..Len(connectedDevices) :
                      connectedDevices[i].socketId # s
                          => connectedDevices'[i] = connectedDevices[i]
         ]_vars

\* a transport whose entry is followed by another transport's entry has registered again:
\* its entry is still the first of two
C13_Witness ==
    /\ lastMsg.ev = "register-device"
    /\ lastMsg.target \in DeviceIds
    /\ Len(connectedDevices) = 2
    /\ connectedDevices[1].socketId = lastMsg.from
    /\ connectedDevices[2].socketId # lastMsg.from

\* C14: the disconnect of a participant that never sent register-device leaves the registry
\* unchanged and emits no device-offline (nor anything else).
C14_NonDeviceDisconnectSilent ==
    [][ (lastMsg'.ev = "disconnect" /\ lastMsg'.from \notin everRegistered) =>
            /\ connectedDevices' = connectedDevices
            /\ emitted' = {}
            /\ delivered' = {}
      ]_vars

\* a controller has disconnected while a device is registered
C14_Witness ==
    /\ lastMsg.ev = "disconnect"
    /\ lastMsg.from \notin everRegistered
    /\ dataType[lastMsg.from] = "ADMIN"
    /\ Len(connectedDevices) = 1
    /\ sockState[connectedDevices[1].socketId] = "open"
    /\ emitted = {}

\* C15: each device-online and device-offline notification is delivered to every connected
\* participant identified as a controller and to nobody else.
C15_NotificationsToControllersOnly ==
    (\E n \in emitted : n.ev \in {"device-online", "device-offline"})
        => Recipients = {s \in Open : dataType[s] = "ADMIN"}

\* C16: a command message causes at most one command delivery, made in the step that
\* handles it, to a transport whose entry has the message's targetDeviceId at that moment;
\* a command handled while the target is absent delivers nothing and leaves nothing behind
\* in the relay, so it is not delivered later either.
C16_CommandAtMostOnce ==
    /\ [](\A e \in delivered : e.ev = "command" => lastMsg.ev = "command")
    /\ [][ lastMsg'.ev = "command" =>
             /\ Cardinality(delivered') <= 1
             /\ \A e \in delivered' :
                  /\ e.ev = "command"
                  /\ e.payload = [command |-> lastMsg'.body]
                  /\ \E i \in Matching(connectedDevices, lastMsg'.target) :
                       connectedDevices[i].socketId = e.to
             /\ Matching(connectedDevices, lastMsg'.target) = {} => delivered' = {}
             /\ UNCHANGED <<sockState, dataType, dataDeviceId, connectedDevices>>
         ]_vars

\* a command for a deviceId that two connected transports registered reached one of them
C16_Witness ==
    /\ lastMsg.ev = "command"
    /\ Cardinality(Matching(connectedDevices, lastMsg.target)) = 2
    /\ \A s \in Sock : sockState[s] = "open"
    /\ Cardinality(delivered) = 1

\* C17: a download-file sent for a deviceId whose registry entry belongs to a connected
\* transport is forwarded by the relay to that transport.
C17_DownloadForwarded ==
    (/\ lastMsg.ev = "download-file"
     /\ Matching(connectedDevices, lastMsg.target) # {}
     /\ sockState[connectedDevices[FirstMatching(connectedDevices, lastMsg.target)].socketId]
          = "open")
        => \E e \in delivered :
             e.to = connectedDevices[FirstMatching(connectedDevices, lastMsg.target)].socketId

\* C18: whatever messages the participants have sent, the relay still handles the next
\* register, command, signaling and file message of every connected participant.
C18_RelayKeepsHandling ==
    \A s \in Sock :
        sockState[s] = "open" =>
            /\ ENABLED RegisterAdmin(s)
            /\ ENABLED Command(s, "D1", "x")
            /\ ENABLED Offer(s, "D1", "x")
            /\ ENABLED RequestFiles(s, "D1")

\* the messages other than register-device that the relay has a handler for
NonRegisteringEvents ==
    {"register-admin", "get-active-devices", "offer", "answer", "ice-candidate",
     "command", "request-files", "file-list", "delete-file"}

\* the payload of a signaling message as the relay received it
ReceivedPayload(m) ==
    IF m.ev = "ice-candidate" THEN [target |-> m.target, candidate |-> m.body]
                              ELSE [target |-> m.target, sdp |-> m.body]

\* C26: what the relay emits for an offer, answer or ice-candidate is that same event
\* with the payload it received, and handling any message other than register-device
\* (and a disconnect) leaves the registry as it was.
C26_RelayForwardsUnchanged ==
    [][ /\ lastMsg'.ev \in NonRegisteringEvents => connectedDevices' = connectedDevices
        /\ lastMsg'.ev \in {"offer", "answer", "ice-candidate"} =>
              /\ \A e \in emitted' :
                    e.ev = lastMsg'.ev /\ e.payload = ReceivedPayload(lastMsg')
              /\ \A e \in delivered' :
                    e.ev = lastMsg'.ev /\ e.payload = ReceivedPayload(lastMsg')
        /\ connectedDevices' # connectedDevices =>
              lastMsg'.ev \in {"register-device", "disconnect"}
      ]_vars

\* a registered device's answer has been forwarded to the other participant
C26_Witness ==
    /\ lastMsg.ev = "answer"
    /\ lastMsg.target = "admin"
    /\ Len(connectedDevices) = 1
    /\ connectedDevices[1].socketId = lastMsg.from
    /\ Cardinality(delivered) = 1
    /\ \A e \in delivered : e.payload = [target |-> "admin", sdp |-> lastMsg.body]

\* C27: a request-files for a deviceId that the registry holds delivers exactly one
\* request-file-list, to the transport of the earliest entry with that deviceId (whose
\* file-list reply the relay then hands on as file-list-update).
C27_RequestFilesReachesDevice ==
    (/\ lastMsg.ev = "request-files"
     /\ Matching(connectedDevices, lastMsg.target) # {})
        => /\ Cardinality(delivered) = 1
           /\ \A e \in delivered :
                 /\ e.ev = "request-file-list"
                 /\ e.to = connectedDevices[FirstMatching(connectedDevices,
                                                          lastMsg.target)].socketId

\* C38: every registry entry sits under the key of the transport named in it, one entry
\* per key, and the deviceId remembered on that transport is the entry's deviceId; so a
\* device-offline carries the deviceId of the entry that the disconnect removes.
C38_EntryMatchesTransport ==
    /\ [](\A i \in 1..Len(connectedDevices) :
            LET e == connectedDevices[i] IN
            /\ KeyIndex(connectedDevices, e.socketId) = i
            /\ e.socketId \in everRegistered
            /\ dataDeviceId[e.socketId] = e.deviceId)
    /\ [][ \A x \in emitted' :
             x.ev = "device-offline" =>
                 LET s == lastMsg'.from
                     i == KeyIndex(connectedDevices, s)
                 IN  /\ lastMsg'.ev = "disconnect"
                     /\ i # 0
                     /\ connectedDevices[i].deviceId = x.payload.deviceId
                     /\ connectedDevices' = MapDelete(connectedDevices, s)
                     /\ KeyIndex(connectedDevices', s) = 0
         ]_vars

\* the transport registered as D2 has disconnected: the notification names D2 and the
\* entry of the other transport, registered as D1, remains
C38_Witness ==
    /\ lastMsg.ev = "disconnect"
    /\ emitted = {[ev |-> "device-offline", payload |-> [deviceId |-> "D2"]]}
    /\ offlineCount[lastMsg.from] = 1
    /\ Len(connectedDevices) = 1
    /\ connectedDevices[1].deviceId = "D1"

\* the events only a controller is meant to send
ControllerEvents == {"command", "offer", "request-files", "delete-file"}

\* C33: a command, offer, request-files or delete-file is delivered to a device only
\* when the sender's transport has identified itself with register-admin.
C33_OnlyControllersReachDevices ==
    (lastMsg.ev \in ControllerEvents /\ delivered # {})
        => dataType[lastMsg.from] = "ADMIN"

\* ===================================================================
\*           P R O P E R T I E S :  C O N T R O L L E R   V I E W
\* ===================================================================

LivePcs == {a \in Attempt : pcs[a].created /\ ~pcs[a].closed}

TeardownOps == {"mount", "setProps", "unmount"}

\* C7: when the deadline of an attempt elapses (the attempt got no remote track and was
\* not torn down, or the timer would have been cancelled) the state moves to TIMEOUT,
\* for a first attempt and for one that superseded a CONNECTING or CONNECTED attempt.
C7_DeadlineMovesToTimeout ==
    [][ feedOp'.op = "deadline" => feed'.connectionStatus = "TIMEOUT" ]_vars

\* C8: the state enters TIMEOUT only from CONNECTING, and once it is TIMEOUT only the
\* operator's switch to SIMULATION or a new attempt (or teardown) changes it; within the
\* attempt nothing moves it on from TIMEOUT or SIMULATION otherwise.
C8_TimeoutIsTerminal ==
    [][ /\ (feed.connectionStatus = "TIMEOUT" /\ feed'.connectionStatus # "TIMEOUT")
            => feedOp'.op \in TeardownOps \cup {"enableSimulation"}
        /\ (feed.connectionStatus # "TIMEOUT" /\ feed'.connectionStatus = "TIMEOUT")
            => feed.connectionStatus = "CONNECTING"
      ]_vars

\* C9: the state becomes CONNECTED only by a remote track on the current, non-closed
\* negotiation object; while it is CONNECTED no deadline timer is pending; and a
\* CONNECTED state never moves to TIMEOUT.
C9_ConnectedOnlyByTrack ==
    /\ [](feed.connectionStatus = "CONNECTED" => deadlines = {})
    /\ [][ /\ (feed'.connectionStatus = "CONNECTED" /\ feed.connectionStatus # "CONNECTED")
               => /\ feedOp'.op = "ontrack"
                  /\ feedOp'.attempt = feed'.pcRef
                  /\ feedOp'.attempt \in LivePcs
                  /\ pcs[feedOp'.attempt].remoteDescription
           /\ feedOp'.op = "ontrack" => feedOp'.attempt = feed.pcRef
           /\ feed.connectionStatus = "CONNECTED" => feed'.connectionStatus # "TIMEOUT"
         ]_vars

\* a superseding attempt has reached CONNECTED by a track
C9_Witness ==
    /\ feed.connectionStatus = "CONNECTED"
    /\ feedOp = FeedOp("ontrack", 2)
    /\ feed.pcRef = 2
    /\ pcs[1].closed

\* C10: a superseded or unmounted negotiation has its object closed and its deadline
\* cancelled before a new object is created; at most one non-closed object and at most one
\* pending deadline exist at any moment; running the teardown twice equals running it once.
C10_SingleLiveNegotiation ==
    /\ [](/\ Cardinality(LivePcs) <= 1
          /\ Cardinality(deadlines) <= 1
          /\ LivePcs \subseteq {feed.pcRef}
          /\ \A d \in deadlines : d.id = feed.timeoutRef /\ d.id \in LivePcs
          /\ ~feed.mounted => (LivePcs = {} /\ deadlines = {})
          /\ Cleanup(Cleanup(FeedState)) = Cleanup(FeedState))
    /\ [][ attempts' > attempts =>
             /\ \A a \in 1..attempts : pcs'[a].closed
             /\ \A d \in deadlines' : d.id = attempts'
         ]_vars

\* a CONNECTING negotiation has been superseded: the first object is closed, the second
\* is live and owns the only pending deadline
C10_Witness ==
    /\ attempts = 2
    /\ feedOp = FeedOp("setProps", 2)
    /\ pcs[1].closed
    /\ LivePcs = {2}
    /\ \E d \in deadlines : d.id = 2 /\ d.captured = "CONNECTING"

\* C22: a received answer or candidate changes no negotiation object but the current one,
\* which is the latest created and is not closed; an object that was replaced or torn down
\* is never changed by them, and while the view is unmounted they are not handled at all.
C22_NoAnswerToStaleObject ==
    [][ feedOp'.op \in {"answer", "candidate"} =>
          /\ feed.mounted
          /\ feedOp'.attempt = feed.pcRef
          /\ \A a \in Attempt :
                pcs'[a] # pcs[a] =>
                    /\ a = feed.pcRef
                    /\ a = attempts
                    /\ ~pcs[a].closed
      ]_vars

\* an answer has been applied to the second object while the first, replaced while it
\* waited for its answer, is closed and has no remote description
C22_Witness ==
    /\ feedOp = FeedOp("answer", 2)
    /\ pcs[2].remoteDescription
    /\ pcs[1].closed
    /\ ~pcs[1].remoteDescription

\* C32: the state leaves SIMULATION only when the negotiation is torn down or a new
\* attempt starts; a deadline timer or a remote track does not change it.
C32_SimulationStays ==
    [][ (feed.connectionStatus = "SIMULATION" /\ feed'.connectionStatus # "SIMULATION")
          => feedOp'.op \in TeardownOps ]_vars

\* C31: the deferred offer of an attempt is transmitted only while that attempt is the
\* current one and has not been torn down; after a teardown or a supersession nothing
\* of the old attempt is sent.
C31_NoOfferAfterTeardown ==
    [][ (feedOp'.op = "emitOffer" /\ offerTimers' # offerTimers)
          => /\ ~pcs[feedOp'.attempt].closed
             /\ feed.pcRef = feedOp'.attempt ]_vars

\* ===================================================================
\*               P R O P E R T I E S :  D E V I C E   C L I E N T
\* ===================================================================

DevLivePcs == {k \in OfferNo : dpcs[k].created /\ ~dpcs[k].closed}

UnusablePayloads == {"nosdp", "missing", "garbage"}

\* C11: after any sequence of offers the device holds at most one non-closed negotiation
\* object and at most one acquired media stream, an earlier object being closed and its
\* tracks released before the next one is constructed.
C11_SingleDeviceNegotiation ==
    /\ Cardinality(DevLivePcs) <= 1
    /\ Cardinality(dstreams) <= 1

\* C19: for an offer that carries no usable session description the device applies no
\* remote description and emits no answer and no candidate, and when its handler ends the
\* device's status reports an error.
C19_UnusableOfferRejected ==
    /\ [](\A k \in OfferNo :
            (calls[k].stage # "none" /\ calls[k].payload \in UnusablePayloads) =>
                /\ ~dpcs[k].remoteDescription
                /\ \A e \in devOut : e.offer # k)
    /\ [][ \A k \in OfferNo :
             (/\ calls'[k].stage = "done"
              /\ calls[k].stage # "done"
              /\ calls'[k].payload \in UnusablePayloads)
                 => dev'.status \in ErrorStatuses
         ]_vars

\* C20: when getUserMedia fails while an offer is handled, the device creates no
\* negotiation object and acquires no stream for it, emits nothing, sets the camera-error
\* status, and that handler takes no further step; the next offer starts at media
\* acquisition again.
C20_MediaFailureAbandons ==
    /\ [](\A k \in OfferNo :
            calls[k].outcome = "mediaFailed" =>
                /\ calls[k].stage = "done"
                /\ ~dpcs[k].created
                /\ k \notin dstreams
                /\ \A e \in devOut : e.offer # k)
    /\ [][ \A k \in OfferNo :
             /\ (devOp'.op = "mediaFailed" /\ devOp'.offer = k) =>
                    /\ calls'[k].outcome = "mediaFailed"
                    /\ dev'.status = "Camera Error: Check Permissions"
                    /\ devOut' = {}
                    /\ UNCHANGED <<dpcs, dstreams>>
             /\ calls[k].outcome = "mediaFailed" => calls'[k] = calls[k]
             /\ (devOp'.op = "offer" /\ devOp'.offer = k /\ dev.version = "v2.2") =>
                    (k = offersSeen + 1 /\ calls'[k].stage = "media")
         ]_vars

\* the first offer was abandoned on a media failure and the second one was answered
C20_Witness ==
    /\ calls[1].outcome = "mediaFailed"
    /\ calls[2].outcome = "answered"
    /\ devOut = {DevEmit("answer", 2)}
    /\ DevLivePcs = {2}

\* ===================================================================
\*                 P R O P E R T I E S :  F I L E S
\* ===================================================================

ScannedDirs == Range(ScanPathsV22)

\* the entries a listing may report: regular files of readable scanned directories
Eligible == {e \in Range(dfs.entries) :
                e.isFile /\ e.dir \in ScannedDirs /\ e.dir \notin dfs.unreadable}

\* C29: the file-list the device sends holds only regular files of the scanned
\* directories, at most 100 of them, newest first, the most recent ones when there are
\* more than 100; an unreadable directory contributes nothing to it.
C29_ListNewestFirst ==
    [][ \A m \in wire' \ wire :
             (m.ev = "file-list" /\ m.to = 0) =>
                 /\ \A i \in 1..Len(m.body) : \E e \in Eligible : m.body[i] = FileItem(e)
                 /\ Len(m.body) <= CapV22
                 /\ \A i, j \in 1..Len(m.body) :
                       i < j => m.body[i].date >= m.body[j].date
                 /\ Cardinality(Eligible) > CapV22 =>
                       \A e \in Eligible :
                           FileItem(e) \notin Range(m.body) =>
                               \A i \in 1..Len(m.body) : m.body[i].date >= e.date
         ]_vars

\* ===================================================================
\*           P R O P E R T I E S :  D E V I C E   L I S T
\* ===================================================================

DeviceIdsOf(list) == {list[i].deviceId : i \in 1..Len(list)}

\* C30: every client says hello on every connect (a device register-device, a dashboard
\* register-admin then get-active-devices), so a device whose transport stays connected
\* ends up, for good, in the registry and in the list of every dashboard that stays
\* connected.
C30_RosterRebuilt ==
    \A d \in RosterTransports :
        <>[](sockState[d] = "open" /\ dash[d].kind = "device")
            => <>[](/\ KeyIndex(connectedDevices, d) # 0
                    /\ \A c \in Dashboards(Open) :
                          dash[d].deviceId \in DeviceIdsOf(dash[c].devices))

\* C34: a dashboard that has received its active-devices-list lists exactly the
\* deviceIds the registry holds an entry for.
C34_ListMirrorsRegistry ==
    \A c \in Dashboards(Open) :
        dash[c].sent = 2 => DeviceIdsOf(dash[c].devices) = DeviceIdsOf(connectedDevices)

\* C35: with two dashboards each browsing its own device, the list a file manager
\* shows is the list of the device it addressed in its request-files.
C35_OwnDeviceFiles ==
    \A c \in BrowseControllers :
        (dash[c].fmOpen /\ ~dash[c].loading)
            => dash[c].files = StorageOf(dash[c].fmTarget)

\* C36: every command the dashboard emits names the selected device as its target and
\* is delivered to that device when it is registered.
C36_CommandsNameSelectedDevice ==
    lastMsg.ev = "command" =>
        LET selected == dash[lastMsg.from].selected
            i        == FindDevice(connectedDevices, selected)
        IN  /\ lastMsg.target = selected
            /\ i # 0 => \E m \in delivered :
                            m.ev = "command" /\ m.to = connectedDevices[i].socketId

\* C37: while the dashboard stays open, a change of the selected device leaves the
\* dashboard's transport connected and the same.
C37_SelectionKeepsTransport ==
    [][ \A c \in Transport :
          (dash[c].kind = "dashboard" /\ sockState[c] = "open")
              => (dash'[c].kind = "dashboard" /\ sockState'[c] = "open") ]_vars

\* ===================================================================
\*               P R O P E R T I E S :  E N D   T O   E N D
\* ===================================================================

\* C21: the controller applies an answer as the remote description of a negotiation
\* object only when the answer was made for the offer of that object; an answer made for
\* an attempt the controller has superseded is never applied to the current object.
C21_AnswerMatchesOffer ==
    [][ \A a \in Attempt :
          (pcs'[a].remoteDescription /\ ~pcs[a].remoteDescription) =>
              \E m \in wire \ wire' :
                  m.ev = "answer" /\ m.to = CtlSock /\ m.body = a
      ]_vars

\* C23: on neither endpoint is a received candidate applied to a negotiation object that
\* has no remote description: the controller ignores a candidate that arrives before the
\* answer was applied, changing nothing and reporting no error, and the device, which
\* registers no candidate listener, applies none at all.
C23_NoEarlyCandidate ==
    [][ /\ \A a \in Attempt :
              pcs'[a].candidates # pcs[a].candidates =>
                  pcs[a].remoteDescription /\ ~pcs[a].closed
        /\ (feedOp'.op = "candidate" /\ feedOp' # feedOp
                /\ (feed.pcRef = 0 \/ ~pcs[feed.pcRef].remoteDescription))
              => UNCHANGED <<feed, pcs, deadlines, offerTimers>>
        /\ (\E m \in wire \ wire' : m.ev = "ice-candidate" /\ m.to = DevSock)
              => UNCHANGED <<dev, dpcs, dstreams, calls, devOut>>
      ]_vars

\* the device's candidate overtook its answer: the controller ignored it while its object
\* was still waiting for the answer, which is in flight
C23_Witness ==
    /\ feedOp = FeedOp("candidate", 1)
    /\ pcs[1].signalingState = "have-local-offer"
    /\ ~pcs[1].remoteDescription
    /\ pcs[1].candidates = 0
    /\ feed.connectionStatus = "CONNECTING"
    /\ \E m \in wire : m.ev = "answer"

\* C24: in every negotiation the controller has set its local offer, and armed the
\* deadline before that, when the offer is transmitted; the device transmits an answer
\* only after it acquired media, constructed its object and applied the offer as remote
\* description; the answer is tagged target "admin"; and the device emits no candidate
\* for a negotiation before that negotiation's answer.
C24_NegotiationOrder ==
    /\ [](\A e \in devOut :
            e.ev = "ice-candidate" => calls[e.offer].outcome = "answered")
    /\ [][ /\ attempts' > attempts =>
                /\ \E d \in deadlines' : d.id = attempts'
                /\ pcs'[attempts'].offerPending
                /\ \A tm \in offerTimers' : tm.id # attempts'
           /\ \A m \in wire' \ wire :
                (m.ev = "offer" /\ m.to = 0) =>
                    /\ m.body \in 1..attempts
                    /\ \E tm \in offerTimers \ offerTimers' : tm.id = m.body
                    /\ pcs[m.body].created /\ ~pcs[m.body].offerPending
                    /\ pcs[m.body].signalingState = "stable"
                          => pcs[m.body].remoteDescription
           /\ \A m \in wire' \ wire :
                (m.ev = "answer" /\ m.to = 0) =>
                    /\ m.target = "admin"
                    /\ \E k \in OfferNo :
                          /\ devOp' = DevOp("answer", k)
                          /\ devOut' = {[ev |-> "answer", target |-> "admin", offer |-> k]}
                          /\ calls[k].sdp = m.body
                          /\ k \in dstreams
                          /\ dpcs[k].created /\ dpcs[k].remoteDescription
                          /\ ~dpcs[k].localDescription
         ]_vars

\* the device has answered the offer of a superseding attempt and then emitted a candidate
C24_Witness ==
    /\ attempts = 2
    /\ calls[2].sdp = 2
    /\ calls[2].outcome = "answered"
    /\ devOp = DevOp("candidate", 2)
    /\ \E m \in wire : m.ev = "answer" /\ m.body = 2

\* C25: the controller state becomes SIMULATION only by the operator's switch, taken
\* while the state is TIMEOUT; no timer, track, message or error step produces it, the
\* switch changes nothing but the state, and the device never has a SIMULATION status.
C25_SimulationOnlyByOperator ==
    /\ [](dev.status # "SIMULATION")
    /\ [][ (feed'.connectionStatus = "SIMULATION" /\ feed.connectionStatus # "SIMULATION")
              => /\ feedOp' = FeedOp("enableSimulation", 0)
                 /\ feed.mounted
                 /\ feed.connectionStatus = "TIMEOUT"
                 /\ feed' = [feed EXCEPT !.connectionStatus = "SIMULATION"]
                 /\ UNCHANGED <<pcs, deadlines, offerTimers, wire, devVars, relayVars>>
         ]_vars

\* the operator switched to simulation after the second attempt timed out, while the
\* device was streaming
C25_Witness ==
    /\ feed.connectionStatus = "SIMULATION"
    /\ feedOp = FeedOp("enableSimulation", 0)
    /\ attempts = 2
    /\ pcs[2].remoteDescription
    /\ dev.status = "Streaming Video..."

\* C12: with one controller and one registered device whose media acquisition succeeds and
\* no disconnects, the controller's offer reaches the device, the device answers with
\* target admin, the controller applies that answer to the negotiation object that made
\* the offer, no candidate is applied where it would be rejected, and from the remote
\* track on the controller state is CONNECTED.
C12_NegotiationCompletes ==
    /\ <>[](/\ calls[1].outcome = "answered"
            /\ calls[1].sdp = 1
            /\ pcs[1].remoteDescription
            /\ feed.connectionStatus = "CONNECTED")
    /\ [](feedOp.op = "ontrack" => feed.connectionStatus = "CONNECTED")
    /\ [][ \A a \in Attempt :
             /\ (pcs'[a].remoteDescription /\ ~pcs[a].remoteDescription) =>
                    /\ pcs[a].signalingState = "have-local-offer"
                    /\ \E m \in wire \ wire' :
                         /\ m.ev = "answer" /\ m.from = 0 /\ m.to = CtlSock
                         /\ m.target = "admin" /\ m.body = a
             /\ (pcs'[a].candidates # pcs[a].candidates) =>
                    /\ ~pcs[a].closed /\ pcs[a].remoteDescription
                    /\ \E m \in wire \ wire' : m.ev = "ice-candidate" /\ m.body = a
             /\ (devOp'.op = "offer" /\ devOp' # devOp) =>
                    \E m \in wire \ wire' :
                         m.ev = "offer" /\ m.to = DevSock /\ m.target = "D1"
         ]_vars

\* the negotiation is complete: answered by the device, answer and a candidate applied by
\* the controller, a track arrived, nothing left in flight
C12_Witness ==
    /\ feed.connectionStatus = "CONNECTED"
    /\ feedOp = FeedOp("ontrack", 1)
    /\ calls[1].outcome = "answered"
    /\ pcs[1].remoteDescription
    /\ pcs[1].candidates = 1
    /\ wire = {}

====
